---- MODULE Spec2Model ----
(***************************************************************************)
(* A model of cwt's session multiplexer: the PTY Session (both variants:   *)
(* the vt10x-backed one and the ring-buffer one) and the pty.Manager       *)
(* registry that owns the id -> *Session map.                              *)
(*                                                                         *)
(* Two behaviours are specified over the same definitions:                 *)
(*   SessionSpec  one Session object driven through its own API, with its  *)
(*                read-loop goroutine and the child process at the other   *)
(*                end of the pseudo-terminal;                              *)
(*   Spec         the Manager called by concurrent goroutines, every       *)
(*                method split at its map accesses, under m.mu.            *)
(*                                                                         *)
(* Two more behaviours are specified over variables of their own:          *)
(*   LockSpec     one started Session at the level of its mutexes: callers *)
(*                of Write and Output, the read loop, the child;           *)
(*   WorktreeSpec the worktree.Manager, its State in memory, the state     *)
(*                file and the git repository it drives.                   *)
(***************************************************************************)
EXTENDS Integers, Sequences, FiniteSets, TLC

VARIABLES
    heap,       \* every *Session constructed so far: index -> Session record
    sessions,   \* Manager.sessions: id -> index into heap
    mu,         \* Manager.mu: [w: the goroutine holding Lock, r: those holding RLock]
    th,         \* per calling goroutine: the Manager method it is in, and where
    quitting,   \* Model.quitting
    last,       \* the latest call that returned: what it saw, did and returned
    impl,       \* which Session implementation the goroutines below run against
    rw,         \* Session.mu ("s") and RingBuffer.mu ("b"), as sync.RWMutex
    gr,         \* per goroutine calling the Session: where it is in Write or Output
    lp,         \* where the readLoop goroutine is
    ptyInQ,     \* bytes in the pseudo-terminal's input queue, unread by the child
    ptyOutQ,    \* bytes the child has written, unread by the readLoop
    state,      \* worktree.Manager.state: the State in memory
    disk,       \* the state file .cwt/state.json
    repo,       \* the git repository: HEAD, branches, worktrees, merge in progress
    call,       \* the worktree.Manager method in progress, and where it is
    ret,        \* what the worktree.Manager method called last returned
    now,        \* time.Now(), as a counter
    model       \* the tui.Model bubbletea holds, and where its handler is

sessionVars == <<heap, sessions, mu, th, quitting, last>>
lockVars == <<impl, rw, gr, lp, ptyInQ, ptyOutQ>>
worktreeVars == <<state, disk, repo, call, ret, now>>
uiVars == <<model>>

vars == <<sessionVars, lockVars, worktreeVars, uiVars>>

---------------------------------------------------------------------------
\* Bounds of the model.

\* Sessions the Manager constructs and starts in one behaviour.
MaxSessions == 2
\* Bytes the child writes to its terminal in one behaviour.
MaxOut == 3
\* Bytes submitted through Session.Write in one behaviour.
MaxIn == 3
\* Longest slice handed to one Session.Write call.
MaxWriteLen == 2
\* Stands for len(buf) (4096) in readLoop: the most bytes one Read returns.
ReadBufLen == 2
\* Stands for the ring buffer's capacity (1024 * 1024) in NewSession.
RingSize == 2
\* The largest capacity of the RingBuffers written to directly.
MaxCap == 3
\* The most bytes written to such a RingBuffer in all.
MaxRingBytes == 8
\* The most bytes one RingBuffer.Write is given.
MaxChunk == 4

\* The most sessions the UI makes in one behaviour.
MaxUiSessions == 3
\* The most children of the UI's sessions that exit by themselves.
MaxExits == 1
\* The time up to which the UI creates and merges agents.
MaxUiNow == 1

\* Program constants.
\* The size NewModel gives the Model.
UiWidth == 80
UiHeight == 24
DefaultRows == 24
DefaultCols == 80

Ids == {"main", "a1"}
Threads == {"g1", "g2"}
Variants == {"vt10x", "ring"}
\* (rows, cols) a caller may pass to Resize.
Dims == {<<DefaultRows, DefaultCols>>, <<10, 40>>}

NoThread == "none"
NoSession == 0

\* uint16(x) for an int x.
Uint16(x) == x % 65536

---------------------------------------------------------------------------
\* RingBuffer (the ring-buffer Session's output buffer).  data is indexed
\* from 0 in the code and from 1 here.

NewRingBuffer(size) ==
    [data |-> [i \in 1..size |-> 0], size |-> size, start |-> 0, len |-> 0]

\* One iteration of the loop in RingBuffer.Write, with start left where
\* it is when the buffer is full.
RingPutByteNoAdvance(r, b) ==
    LET pos == (r.start + r.len) % r.size
    IN  IF r.len < r.size
        THEN [r EXCEPT !.data[pos + 1] = b, !.len = r.len + 1]
        ELSE [r EXCEPT !.data[pos + 1] = b]

\* One iteration of the loop in RingBuffer.Write.
RingPutByte(r, b) ==
    LET pos == (r.start + r.len) % r.size
    IN  IF r.len < r.size
        THEN [r EXCEPT !.data[pos + 1] = b, !.len = r.len + 1]
        ELSE [r EXCEPT !.data[pos + 1] = b, !.start = (r.start + 1) % r.size]

RECURSIVE RingWrite(_, _)
RingWrite(r, p) ==
    IF p = <<>> THEN r ELSE RingWrite(RingPutByte(r, Head(p)), Tail(p))

RingBytes(r) ==
    [i \in 1..r.len |-> r.data[((r.start + (i - 1)) % r.size) + 1]]

---------------------------------------------------------------------------
\* Session.  ptmx is "nil" before a successful Start, then "open", then
\* "closed" once Close has been called on it; the field itself is never
\* reset to nil.  proc is the child: "none", "running", "exited" (on its
\* own) or "killed".  loop is where the readLoop goroutine stands: "none"
\* (not started), "read" (in ptmx.Read), "apply" (a chunk in buf, about to
\* feed it to the terminal / buffer), "exited".  done is the done channel:
\* TRUE once closed.  The pseudo-terminal itself: ptyOut are the bytes the
\* child has written and the master has not read yet, ptyIn the bytes
\* written to the master and not yet read by the child, childIn what the
\* child has read.  Bytes carry their serial number, so that any
\* reordering, loss or duplication shows.

NewSession(id, variant) ==
    [ id       |-> id,
      variant  |-> variant,
      ptmx     |-> "nil",
      proc     |-> "none",
      termOn   |-> FALSE,
      term     |-> <<>>,
      termSize |-> <<0, 0>>,
      winsize  |-> <<0, 0>>,
      rows     |-> IF variant = "vt10x" THEN DefaultRows ELSE 0,
      cols     |-> IF variant = "vt10x" THEN DefaultCols ELSE 0,
      buffer   |-> NewRingBuffer(IF variant = "ring" THEN RingSize ELSE 0),
      done     |-> FALSE,
      loop     |-> "none",
      buf      |-> <<>>,
      ptyOut   |-> <<>>,
      nOut     |-> 0,
      ptyIn    |-> <<>>,
      childIn  |-> <<>>,
      nIn      |-> 0 ]

\* What a Session method hands back: the session after it, and its results.
Ret(s, err, n) == [s |-> s, err |-> err, n |-> n]

\* Session.Start; ok says whether pty.Start / pty.StartWithSize succeeds.
SessionStart(s, ok) ==
    LET s1 == IF s.variant = "vt10x"
              THEN [s EXCEPT !.termOn = TRUE, !.term = <<>>,
                             !.termSize = <<s.cols, s.rows>>]
              ELSE s
    IN  IF ~ok
        THEN Ret(s1, "SpawnError", 0)
        ELSE Ret([s1 EXCEPT !.proc = "running",
                            !.ptmx = "open",
                            !.winsize = IF s.variant = "vt10x"
                                        THEN <<Uint16(s.rows), Uint16(s.cols)>>
                                        ELSE @,
                            !.loop = "read"],
                 "nil", 0)

\* Session.Write.  os.File.Write on a closed file fails with os.ErrClosed
\* and writes nothing; on an open master the bytes go to the terminal's
\* input queue.
SessionWrite(s, data) ==
    IF s.ptmx = "nil" THEN Ret(s, "ErrClosedPipe", 0)
    ELSE IF s.ptmx = "closed" THEN Ret(s, "ErrClosed", 0)
    ELSE Ret([s EXCEPT !.ptyIn = @ \o data], "nil", Len(data))

\* pty.Setsize on the session's master.
Setsize(s, rows, cols) ==
    IF s.ptmx = "open"
    THEN Ret([s EXCEPT !.winsize = <<Uint16(rows), Uint16(cols)>>], "nil", 0)
    ELSE Ret(s, "ErrClosed", 0)

\* Session.Resize.
SessionResize(s, rows, cols) ==
    IF s.variant = "vt10x"
    THEN LET s1 == [s EXCEPT !.rows = rows, !.cols = cols,
                             !.termSize = IF s.termOn THEN <<cols, rows>> ELSE @]
         IN  IF s1.ptmx # "nil" THEN Setsize(s1, rows, cols) ELSE Ret(s1, "nil", 0)
    ELSE IF s.ptmx = "nil" THEN Ret(s, "nil", 0)
         ELSE Setsize(s, Uint16(rows), Uint16(cols))

SessionStopReturnsCloseError(s) ==
    Ret([s EXCEPT !.ptmx = IF @ = "open" THEN "closed" ELSE @,
                  !.proc = IF @ = "running" THEN "killed" ELSE @],
        IF s.ptmx = "closed" THEN "ErrClosed" ELSE "nil", 0)

\* Session.Stop: Close on the master (an error on a second Close is
\* dropped), Kill on the child (an error when it is gone is dropped).
SessionStop(s) ==
    Ret([s EXCEPT !.ptmx = IF @ = "open" THEN "closed" ELSE @,
                  !.proc = IF @ = "running" THEN "killed" ELSE @],
        "nil", 0)

\* Session.IsRunning: the select on the done channel.
IsRunning(s) == ~s.done

\* Session.Output.
Output(s) ==
    IF s.variant = "vt10x"
    THEN (IF s.termOn THEN s.term ELSE <<>>)
    ELSE RingBytes(s.buffer)

---------------------------------------------------------------------------
\* The readLoop goroutine of a session, one blocking point per step.

Min(a, b) == IF a < b THEN a ELSE b

\* ptmx.Read has something to return: k bytes, 1 <= k <= len(buf).
CanReadChunk(s, k) ==
    /\ s.loop = "read"
    /\ s.ptmx = "open"
    /\ k \in 1..Min(Len(s.ptyOut), ReadBufLen)

ReadChunk(s, k) ==
    [s EXCEPT !.buf = SubSeq(s.ptyOut, 1, k),
              !.ptyOut = SubSeq(s.ptyOut, k + 1, Len(s.ptyOut)),
              !.loop = "apply"]

\* ptmx.Read fails: the master was closed (os.ErrClosed), or the child is
\* gone and everything it wrote has been read (EIO / EOF).
CanReadError(s) ==
    /\ s.loop = "read"
    /\ \/ s.ptmx = "closed"
       \/ s.proc \in {"exited", "killed"} /\ s.ptyOut = <<>>

ReadErrorRetries(s) == s

ReadErrorNoClose(s) == [s EXCEPT !.loop = "exited"]

\* The error branch of readLoop: return, and the deferred close(s.done).
ReadError(s) == [s EXCEPT !.loop = "exited", !.done = TRUE]

ApplyChunkDropsFirst(s) ==
    IF s.variant = "vt10x"
    THEN [s EXCEPT !.term = @ \o Tail(s.buf), !.buf = <<>>, !.loop = "read"]
    ELSE [s EXCEPT !.buffer = RingWrite(@, Tail(s.buf)), !.buf = <<>>,
                   !.loop = "read"]

\* The n > 0 branch of readLoop: s.term.Write(buf[:n]) under s.mu, or
\* s.buffer.Write(buf[:n]).
ApplyChunk(s) ==
    IF s.variant = "vt10x"
    THEN [s EXCEPT !.term = @ \o s.buf, !.buf = <<>>, !.loop = "read"]
    ELSE [s EXCEPT !.buffer = RingWrite(@, s.buf), !.buf = <<>>,
                   !.loop = "read"]

LoopRead(i) ==
    /\ i \in DOMAIN heap
    /\ \E k \in 1..ReadBufLen :
          /\ CanReadChunk(heap[i], k)
          /\ heap' = [heap EXCEPT ![i] = ReadChunk(heap[i], k)]
    /\ UNCHANGED <<sessions, mu, th, quitting, last, lockVars, worktreeVars, uiVars>>

LoopReadErr(i) ==
    /\ i \in DOMAIN heap
    /\ CanReadError(heap[i])
    /\ heap' = [heap EXCEPT ![i] = ReadError(heap[i])]
    /\ UNCHANGED <<sessions, mu, th, quitting, last, lockVars, worktreeVars, uiVars>>

LoopApply(i) ==
    /\ i \in DOMAIN heap
    /\ heap[i].loop = "apply"
    /\ heap' = [heap EXCEPT ![i] = ApplyChunk(heap[i])]
    /\ UNCHANGED <<sessions, mu, th, quitting, last, lockVars, worktreeVars, uiVars>>

---------------------------------------------------------------------------
\* The child process at the slave end of the pseudo-terminal.

ChildOutput(i) ==
    /\ i \in DOMAIN heap
    /\ heap[i].proc = "running"
    /\ heap[i].ptmx = "open"
    /\ heap[i].nOut < MaxOut
    /\ heap' = [heap EXCEPT ![i].nOut = @ + 1,
                            ![i].ptyOut = Append(@, heap[i].nOut + 1)]
    /\ UNCHANGED <<sessions, mu, th, quitting, last, lockVars, worktreeVars, uiVars>>

ChildRead(i) ==
    /\ i \in DOMAIN heap
    /\ heap[i].proc = "running"
    /\ heap[i].ptyIn # <<>>
    /\ heap' = [heap EXCEPT ![i].childIn = Append(@, Head(heap[i].ptyIn)),
                            ![i].ptyIn = Tail(@)]
    /\ UNCHANGED <<sessions, mu, th, quitting, last, lockVars, worktreeVars, uiVars>>

ChildExit(i) ==
    /\ i \in DOMAIN heap
    /\ heap[i].proc = "running"
    /\ heap' = [heap EXCEPT ![i].proc = "exited"]
    /\ UNCHANGED <<sessions, mu, th, quitting, last, lockVars, worktreeVars, uiVars>>

---------------------------------------------------------------------------
\* One Session used directly through its API (heap[1]).  last records each
\* call: the method, whether the call before it was of the same method,
\* its argument and its results; seq flips at every call.

NoCall ==
    [op |-> "none", again |-> FALSE, arg |-> <<>>, err |-> "nil", n |-> 0,
     seq |-> 0]

Called(op, arg, r) ==
    [op |-> op, again |-> (last.op = op), arg |-> arg, err |-> r.err,
     n |-> r.n, seq |-> 1 - last.seq]

\* first + 1 .. first + k
Serial(first, k) == [j \in 1..k |-> first + j]

\* Start is called on a session that has no pseudo-terminal and no read
\* loop yet (Manager.Spawn calls it once, on the session it has just made).
CallStart(ok) ==
    /\ heap[1].ptmx = "nil"
    /\ heap[1].loop = "none"
    /\ LET r == SessionStart(heap[1], ok)
       IN  /\ heap' = [heap EXCEPT ![1] = r.s]
           /\ last' = Called("Start", <<ok>>, r)
    /\ UNCHANGED <<sessions, mu, th, quitting, lockVars, worktreeVars, uiVars>>

CallWrite(k) ==
    /\ heap[1].nIn + k <= MaxIn
    /\ LET data == Serial(heap[1].nIn, k)
           r == SessionWrite(heap[1], data)
       IN  /\ heap' = [heap EXCEPT ![1] = [r.s EXCEPT !.nIn = @ + r.n]]
           /\ last' = Called("Write", data, r)
    /\ UNCHANGED <<sessions, mu, th, quitting, lockVars, worktreeVars, uiVars>>

CallResize(rows, cols) ==
    /\ LET r == SessionResize(heap[1], rows, cols)
       IN  /\ heap' = [heap EXCEPT ![1] = r.s]
           /\ last' = Called("Resize", <<rows, cols>>, r)
    /\ UNCHANGED <<sessions, mu, th, quitting, lockVars, worktreeVars, uiVars>>

CallStop ==
    /\ LET r == SessionStop(heap[1])
       IN  /\ heap' = [heap EXCEPT ![1] = r.s]
           /\ last' = Called("Stop", <<>>, r)
    /\ UNCHANGED <<sessions, mu, th, quitting, lockVars, worktreeVars, uiVars>>

\* RingBuffer.Write is called on the session's buffer with the next k
\* bytes.
CallRingWrite(k) ==
    /\ heap[1].nOut + k <= MaxRingBytes
    /\ LET data == Serial(heap[1].nOut, k)
       IN  /\ heap' = [heap EXCEPT ![1].buffer = RingWrite(@, data),
                                   ![1].nOut = @ + k]
           /\ last' = Called("RingBuffer.Write", data, Ret(heap[1], "nil", k))
    /\ UNCHANGED <<sessions, mu, th, quitting, lockVars, worktreeVars, uiVars>>

---------------------------------------------------------------------------
\* The values the mutex-level variables and the worktree variables hold
\* before anything has run.

\* Goroutines that call Write and Output on the one Session: the UI loop
\* and one other caller.
Callers == {"ui", "bg"}

\* A sync.RWMutex nobody holds or waits for: w the goroutine holding Lock,
\* r those holding RLock, pend those blocked in Lock.
NoRW == [w |-> NoThread, r |-> {}, pend |-> {}]

LockAtRest ==
    /\ impl = "vt10x"
    /\ rw = [m \in {"s", "b"} |-> NoRW]
    /\ gr = [g \in Callers |-> "idle"]
    /\ lp = "read"
    /\ ptyInQ = 0
    /\ ptyOutQ = 0

\* NewState(repoRoot) for the repository the Manager is made for: version
\* 1.0, worktree directory .worktrees, no agents, no merge history.
NewState ==
    [version |-> "1.0", repoRoot |-> "/repo", worktreeDir |-> ".worktrees",
     agents |-> <<>>, mergeHistory |-> <<>>]

\* No state file.
NoFile == [kind |-> "absent", data |-> <<>>]

\* The repository cwt is started in: on branch main at its first commit,
\* no agent branch, no worktree, nothing merged, no merge in progress.
FreshRepo ==
    [head |-> <<"main">>, rev |-> 1, branches |-> {<<"main">>},
     worktrees |-> <<>>, merged |-> {}, conflict |-> FALSE]

\* Goroutines that call the worktree.Manager.
WtCallers == {"ui"}

\* No worktree.Manager method is running in a goroutine: its locals.
NoMethod ==
    [op |-> "none", pc |-> "idle", id |-> "none", task |-> <<>>,
     branch |-> <<>>, path |-> <<>>, baseBranch |-> <<>>, baseCommit |-> 0,
     cmds |-> <<>>, pre |-> <<>>]

\* No worktree.Manager method has returned yet.
NoReturn ==
    [op |-> "none", by |-> "none", err |-> "nil", id |-> "none",
     cmds |-> <<>>, val |-> "none", seq |-> 0]

WorktreeAtRest ==
    /\ state = NewState
    /\ disk = NoFile
    /\ repo = FreshRepo
    /\ call = [c \in WtCallers |-> NoMethod]
    /\ ret = NoReturn
    /\ now = 0

\* Model.inputAction when nil.  When set it is the method value
\* m.createNewAgent, which holds the receiver it was taken from: that
\* Model's tabs and activeTab.
NoAction == [set |-> FALSE, tabs |-> <<>>, activeTab |-> 0]

\* No Model: cwt's UI is not running.  pc is the place of the handler in
\* progress, by the key whose handler called closeCurrentTab, id and todo
\* are the handler's locals.
NoModel ==
    [pc |-> "none", by |-> "none", tabs |-> <<>>, activeTab |-> 0,
     inputMode |-> FALSE, inputBuffer |-> <<>>, inputAction |-> NoAction,
     id |-> "none", todo |-> {}]

NoLock == [w |-> NoThread, r |-> {}]

Idle ==
    [pc |-> "idle", op |-> "none", id |-> "none", arg |-> <<>>,
     sess |-> NoSession, seen |-> {}, started |-> "na", pre |-> <<>>]

SessionInit ==
    /\ \E v \in Variants : heap = <<NewSession("main", v)>>
    /\ sessions = <<>>
    /\ mu = NoLock
    /\ th = [t \in Threads |-> Idle]
    /\ quitting = FALSE
    /\ last = NoCall
    /\ model = NoModel
    /\ LockAtRest
    /\ WorktreeAtRest

SessionLoop ==
    \/ LoopRead(1)
    \/ LoopReadErr(1)
    \/ LoopApply(1)

SessionNext ==
    \/ \E ok \in BOOLEAN : CallStart(ok)
    \/ \E k \in 1..MaxWriteLen : CallWrite(k)
    \/ \E d \in Dims : CallResize(d[1], d[2])
    \/ CallStop
    \/ SessionLoop
    \/ ChildOutput(1)
    \/ ChildRead(1)
    \/ ChildExit(1)

SessionSpec == SessionInit /\ [][SessionNext]_vars

\* A RingBuffer of any capacity from 1 to MaxCap, written to directly.
RingInit ==
    /\ \E n \in 1..MaxCap :
          heap = <<[NewSession("main", "ring") EXCEPT
                       !.buffer = NewRingBuffer(n)]>>
    /\ sessions = <<>>
    /\ mu = NoLock
    /\ th = [t \in Threads |-> Idle]
    /\ quitting = FALSE
    /\ last = NoCall
    /\ model = NoModel
    /\ LockAtRest
    /\ WorktreeAtRest

RingNext == \E k \in 0..MaxChunk : CallRingWrite(k)

RingSpec == RingInit /\ [][RingNext]_vars

\* The Go scheduler runs a runnable goroutine eventually: the read loop
\* takes its next step whenever it has one.
FairSessionSpec == SessionSpec /\ WF_vars(SessionLoop)

---------------------------------------------------------------------------
\* Properties of one Session (SessionSpec, FairSessionSpec).

\* The error Session.Write names for a session without a pseudo-terminal.
ClosedError == "ErrClosedPipe"

\* This step is a call of Session method op.
Calls(op) == last'.seq # last.seq /\ last'.op = op

\* C5: Session.Write fails with the closed error and forwards nothing
\* whenever the session was never started or has been stopped, and on a
\* started, not yet stopped session hands the bytes to the terminal's input.
WriteFailsClosedUnlessRunning ==
    [][Calls("Write") =>
          IF heap[1].ptmx = "open"
          THEN /\ last'.err = "nil"
               /\ heap'[1].ptyIn = heap[1].ptyIn \o last'.arg
          ELSE /\ last'.err = ClosedError
               /\ last'.n = 0
               /\ heap'[1].ptyIn = heap[1].ptyIn
      ]_vars

\* C6: Stop never returns an error, whatever the session's state, and a
\* Stop that directly follows a Stop leaves the session as it found it.
StopIdempotent ==
    [][Calls("Stop") =>
          /\ last'.err = "nil"
          /\ last.op = "Stop" => heap'[1] = heap[1]
      ]_vars

\* C6 witness: a second Stop on a session that was running at the first.
StopTwiceOnStarted ==
    /\ last.op = "Stop"
    /\ last.again
    /\ heap[1].ptmx = "closed"
    /\ heap[1].proc = "killed"

RunningUntilLoopEnds ==
    /\ [](IsRunning(heap[1]) <=> heap[1].loop # "exited")
    /\ [][ /\ ~IsRunning(heap[1]) => ~IsRunning(heap'[1])
           /\ heap[1].loop = "exited" => heap'[1].loop = "exited"
           /\ heap[1].proc \in {"exited", "killed"} => heap'[1].proc = heap[1].proc
           /\ (heap[1].loop # "exited" /\ heap'[1].loop = "exited")
                 => CanReadError(heap[1]) ]_vars

\* C8 witness: the loop has ended after feeding output to the session.
LoopEndedAfterOutput ==
    /\ ~IsRunning(heap[1])
    /\ heap[1].loop = "exited"
    /\ Len(Output(heap[1])) >= 1

\* C9: Resize on a session that has not been started returns no error and
\* changes nothing of the session, the size it will start with included.
ResizeBeforeStartIsNoOp ==
    [][(Calls("Resize") /\ heap[1].ptmx = "nil" /\ heap[1].loop = "none") =>
          /\ last'.err = "nil"
          /\ heap'[1] = heap[1]
      ]_vars

\* 1 .. n
Iota(n) == [j \in 1..n |-> j]

\* The last k elements of q.
Trailing(q, k) == SubSeq(q, Len(q) - k + 1, Len(q))

\* C10: the child reads the bytes of the Write calls in the order they
\* were submitted, and the bytes read from the pseudo-terminal reach the
\* terminal model (or the output buffer, which keeps the latest RingSize
\* of them) in the order the child wrote them, none moved, repeated or
\* skipped from one read to the next.
OrderPreserved ==
    LET s == heap[1]
        fed == s.nOut - Len(s.buf) - Len(s.ptyOut)
    IN  /\ s.childIn \o s.ptyIn = Iota(s.nIn)
        /\ fed >= 0
        /\ s.buf \o s.ptyOut = SubSeq(Iota(s.nOut), fed + 1, s.nOut)
        /\ Output(s) = IF s.variant = "vt10x"
                       THEN Iota(fed)
                       ELSE Trailing(Iota(fed), Min(fed, RingSize))

\* C10 witness: several reads and several writes have gone through.
SeveralChunksThrough ==
    LET s == heap[1]
    IN  /\ s.nOut - Len(s.buf) - Len(s.ptyOut) >= 3
        /\ Len(s.childIn) >= 3
        /\ last.op = "Write"
        /\ Len(last.arg) = 1

---------------------------------------------------------------------------
\* pty.Manager.  Each goroutine calling it is a thread t; th[t] holds the
\* method it is in (op), its arguments (id, arg), where it stands (pc) and
\* what the registry was when it took the lock (pre).  A call begins by
\* taking m.mu: a caller blocked on the lock has not begun.  When a call
\* returns, last records the method (op), what it returned (res; n for
\* Count) and whether it started a session (started).

\* m.mu.Lock(): no other holder, reader or writer.
CanLockNoExclusion(t) == TRUE

CanLock(t) == mu.w = NoThread /\ mu.r = {}

\* m.mu.RLock(): no writer holds the lock.
CanRLock(t) == mu.w = NoThread

Locked(t) == [mu EXCEPT !.w = t]
Unlocked(t) == [mu EXCEPT !.w = NoThread]
RLocked(t) == [mu EXCEPT !.r = @ \cup {t}]
RUnlocked(t) == [mu EXCEPT !.r = @ \ {t}]

\* The map with m[k] = v.
Put(m, k, v) == [x \in DOMAIN m \cup {k} |-> IF x = k THEN v ELSE m[x]]

\* delete(m, k)
Remove(m, k) == [x \in DOMAIN m \ {k} |-> m[x]]

\* What a call can observe of the registry: the map, and for every session
\* made so far whether its pseudo-terminal is absent, open or closed.
SnapOf(m, h) == [sessions |-> m, ptmx |-> [i \in DOMAIN h |-> h[i].ptmx]]

\* len(m.sessions)
CountOf(m) == Cardinality(DOMAIN m)

\* Spawn calls that may still construct a session.
Spawning ==
    {u \in Threads : th[u].op = "Spawn" /\ th[u].pc \in {"check", "start"}}

\* A call begins; the program ends after the quit key, so none begins
\* once quitting is set.
Begin(t, op, id, arg, pc) ==
    /\ th[t].pc = "idle"
    /\ ~quitting
    /\ th' = [th EXCEPT ![t] = [Idle EXCEPT !.pc = pc, !.op = op, !.id = id,
                                            !.arg = arg,
                                            !.pre = SnapOf(sessions, heap)]]

\* The record of thread t's call returning res.
Returned(t, res, n) ==
    [op |-> th[t].op, res |-> res, n |-> n, started |-> th[t].started]

\* ---- Spawn
SpawnCall(t, id) ==
    /\ CanLock(t)
    /\ Begin(t, "Spawn", id, <<>>, "check")
    /\ mu' = Locked(t)
    /\ UNCHANGED <<heap, sessions, quitting, last, lockVars, worktreeVars, uiVars>>

\* Spawn is called, while fewer than MaxSessions sessions were made.
SpawnLock(t, id) ==
    /\ Len(heap) + Cardinality(Spawning) < MaxSessions
    /\ SpawnCall(t, id)

SpawnCheckSkipped(t) ==
    /\ th[t].pc = "check" /\ th[t].op = "Spawn"
    /\ th' = [th EXCEPT ![t].pc = "start"]
    /\ UNCHANGED <<heap, sessions, mu, quitting, last, lockVars, worktreeVars, uiVars>>

SpawnCheck(t) ==
    /\ th[t].pc = "check" /\ th[t].op = "Spawn"
    /\ IF th[t].id \in DOMAIN sessions
       THEN /\ last' = Returned(t, "AlreadyExists", 0)
            /\ th' = [th EXCEPT ![t] = Idle]
            /\ mu' = Unlocked(t)
       ELSE /\ th' = [th EXCEPT ![t].pc = "start"]
            /\ UNCHANGED <<mu, last>>
    /\ UNCHANGED <<heap, sessions, quitting, lockVars, worktreeVars, uiVars>>

\* NewSession and session.Start; a session whose Start failed is dropped.
SpawnStart(t) ==
    /\ th[t].pc = "start" /\ th[t].op = "Spawn"
    /\ \E ok \in BOOLEAN :
          LET r == SessionStart(NewSession(th[t].id, "vt10x"), ok)
          IN  IF r.err # "nil"
              THEN /\ last' = [Returned(t, "StartError", 0)
                                  EXCEPT !.started = "failed"]
                   /\ th' = [th EXCEPT ![t] = Idle]
                   /\ mu' = Unlocked(t)
                   /\ heap' = heap
              ELSE /\ th' = [th EXCEPT ![t].pc = "insert",
                                       ![t].started = "ok",
                                       ![t].sess = Len(heap) + 1]
                   /\ heap' = Append(heap, r.s)
                   /\ UNCHANGED <<mu, last>>
    /\ UNCHANGED <<sessions, quitting, lockVars, worktreeVars, uiVars>>

SpawnInsert(t) ==
    /\ th[t].pc = "insert" /\ th[t].op = "Spawn"
    /\ sessions' = Put(sessions, th[t].id, th[t].sess)
    /\ last' = Returned(t, "ok", 0)
    /\ th' = [th EXCEPT ![t] = Idle]
    /\ mu' = Unlocked(t)
    /\ UNCHANGED <<heap, quitting, lockVars, worktreeVars, uiVars>>

\* ---- Get, Count: one map read under RLock
Get(t, id) ==
    /\ CanRLock(t)
    /\ th[t].pc = "idle"
    /\ ~quitting
    /\ LET ok == id \in DOMAIN sessions
       IN  last' = [op |-> "Get", res |-> IF ok THEN "ok" ELSE "NotFound",
                    n |-> 0, started |-> "na"]
    /\ UNCHANGED <<heap, sessions, mu, th, quitting, lockVars, worktreeVars, uiVars>>

Count(t) ==
    /\ CanRLock(t)
    /\ th[t].pc = "idle"
    /\ ~quitting
    /\ last' = [op |-> "Count", res |-> "ok", n |-> CountOf(sessions),
                started |-> "na"]
    /\ UNCHANGED <<heap, sessions, mu, th, quitting, lockVars, worktreeVars, uiVars>>

\* ---- Kill
KillLock(t, id) ==
    /\ CanLock(t)
    /\ Begin(t, "Kill", id, <<>>, "lookup")
    /\ mu' = Locked(t)
    /\ UNCHANGED <<heap, sessions, quitting, last, lockVars, worktreeVars, uiVars>>

KillLookup(t) ==
    /\ th[t].pc = "lookup" /\ th[t].op = "Kill"
    /\ IF th[t].id \in DOMAIN sessions
       THEN /\ th' = [th EXCEPT ![t].pc = "stop", ![t].sess = sessions[th[t].id]]
            /\ UNCHANGED <<mu, last>>
       ELSE /\ last' = Returned(t, "NotFound", 0)
            /\ th' = [th EXCEPT ![t] = Idle]
            /\ mu' = Unlocked(t)
    /\ UNCHANGED <<heap, sessions, quitting, lockVars, worktreeVars, uiVars>>

KillStop(t) ==
    /\ th[t].pc = "stop" /\ th[t].op = "Kill"
    /\ LET r == SessionStop(heap[th[t].sess])
       IN  /\ heap' = [heap EXCEPT ![th[t].sess] = r.s]
           /\ IF r.err # "nil"
              THEN /\ last' = Returned(t, r.err, 0)
                   /\ th' = [th EXCEPT ![t] = Idle]
                   /\ mu' = Unlocked(t)
              ELSE /\ th' = [th EXCEPT ![t].pc = "delete"]
                   /\ UNCHANGED <<mu, last>>
    /\ UNCHANGED <<sessions, quitting, lockVars, worktreeVars, uiVars>>

KillDeleteSkipped(t) ==
    /\ th[t].pc = "delete" /\ th[t].op = "Kill"
    /\ last' = Returned(t, "ok", 0)
    /\ th' = [th EXCEPT ![t] = Idle]
    /\ mu' = Unlocked(t)
    /\ UNCHANGED <<heap, sessions, quitting, lockVars, worktreeVars, uiVars>>

KillDelete(t) ==
    /\ th[t].pc = "delete" /\ th[t].op = "Kill"
    /\ sessions' = Remove(sessions, th[t].id)
    /\ last' = Returned(t, "ok", 0)
    /\ th' = [th EXCEPT ![t] = Idle]
    /\ mu' = Unlocked(t)
    /\ UNCHANGED <<heap, quitting, lockVars, worktreeVars, uiVars>>

\* ---- ResizeAll: the range over the map under RLock
ResizeAllLock(t, rows, cols) ==
    /\ CanRLock(t)
    /\ Begin(t, "ResizeAll", "none", <<rows, cols>>, "range")
    /\ mu' = RLocked(t)
    /\ UNCHANGED <<heap, sessions, quitting, last, lockVars, worktreeVars, uiVars>>

ResizeAllStep(t) ==
    /\ th[t].pc = "range" /\ th[t].op = "ResizeAll"
    /\ \E id \in DOMAIN sessions \ th[t].seen :
          /\ th' = [th EXCEPT ![t].seen = @ \cup {id}]
          /\ heap' = [heap EXCEPT ![sessions[id]] =
                         SessionResize(@, th[t].arg[1], th[t].arg[2]).s]
    /\ UNCHANGED <<sessions, mu, quitting, last, lockVars, worktreeVars, uiVars>>

ResizeAllEnd(t) ==
    /\ th[t].pc = "range" /\ th[t].op = "ResizeAll"
    /\ DOMAIN sessions \subseteq th[t].seen
    /\ last' = Returned(t, "ok", 0)
    /\ th' = [th EXCEPT ![t] = Idle]
    /\ mu' = RUnlocked(t)
    /\ UNCHANGED <<heap, sessions, quitting, lockVars, worktreeVars, uiVars>>

\* ---- StopAll: the range over the map under Lock, each entry stopped
\* and deleted.  The UI's quit key sets quitting and calls it.
StopAllLock(t) ==
    /\ CanLock(t)
    /\ Begin(t, "StopAll", "none", <<>>, "range")
    /\ mu' = Locked(t)
    /\ UNCHANGED <<heap, sessions, quitting, last, lockVars, worktreeVars, uiVars>>

QuitKey(t) ==
    /\ CanLock(t)
    /\ Begin(t, "Quit", "none", <<>>, "range")
    /\ mu' = Locked(t)
    /\ quitting' = TRUE
    /\ UNCHANGED <<heap, sessions, last, lockVars, worktreeVars, uiVars>>

StopAllStepKeepsEntry(t) ==
    /\ th[t].pc = "range" /\ th[t].op \in {"StopAll", "Quit"}
    /\ \E id \in DOMAIN sessions :
          /\ heap' = [heap EXCEPT ![sessions[id]] = SessionStop(@).s]
          /\ sessions' = Remove(sessions, id)
          /\ last' = Returned(t, "ok", 0)
    /\ th' = [th EXCEPT ![t] = Idle]
    /\ mu' = Unlocked(t)
    /\ UNCHANGED <<quitting, lockVars, worktreeVars, uiVars>>

StopAllStep(t) ==
    /\ th[t].pc = "range" /\ th[t].op \in {"StopAll", "Quit"}
    /\ \E id \in DOMAIN sessions :
          /\ heap' = [heap EXCEPT ![sessions[id]] = SessionStop(@).s]
          /\ sessions' = Remove(sessions, id)
    /\ UNCHANGED <<mu, th, quitting, last, lockVars, worktreeVars, uiVars>>

StopAllEnd(t) ==
    /\ th[t].pc = "range" /\ th[t].op \in {"StopAll", "Quit"}
    /\ DOMAIN sessions = {}
    /\ last' = Returned(t, "ok", 0)
    /\ th' = [th EXCEPT ![t] = Idle]
    /\ mu' = Unlocked(t)
    /\ UNCHANGED <<heap, sessions, quitting, lockVars, worktreeVars, uiVars>>

Init ==
    /\ heap = <<>>
    /\ sessions = <<>>
    /\ mu = NoLock
    /\ th = [t \in Threads |-> Idle]
    /\ quitting = FALSE
    /\ last = NoCall
    /\ model = NoModel
    /\ LockAtRest
    /\ WorktreeAtRest

Next ==
    \/ \E t \in Threads :
          \/ \E id \in Ids : SpawnLock(t, id)
          \/ SpawnCheck(t) \/ SpawnStart(t) \/ SpawnInsert(t)
          \/ \E id \in Ids : Get(t, id)
          \/ Count(t)
          \/ \E id \in Ids : KillLock(t, id)
          \/ KillLookup(t) \/ KillStop(t) \/ KillDelete(t)
          \/ \E d \in Dims : ResizeAllLock(t, d[1], d[2])
          \/ ResizeAllStep(t) \/ ResizeAllEnd(t)
          \/ StopAllLock(t) \/ QuitKey(t) \/ StopAllStep(t) \/ StopAllEnd(t)
    \/ \E i \in 1..MaxSessions : LoopReadErr(i) \/ ChildExit(i)

Spec == Init /\ [][Next]_vars

---------------------------------------------------------------------------
\* Properties of the Manager (Spec).

\* Thread t's call of method op returns in this step.
Returns(t, op) == th[t].op = op /\ th[t].pc # "idle" /\ th'[t].pc = "idle"

\* C1: Spawn(id) registers a session under id exactly when id was not
\* registered and the session started; on a registered id it fails with
\* the already-exists error (no session started), on a failed start with
\* the start error, and in both cases the map and every session's
\* pseudo-terminal are as the call found them; on success the map gains
\* id -> a new, started session and nothing else changes.
SpawnContract ==
    [][\A t \in Threads : Returns(t, "Spawn") =>
          LET id == th[t].id
              pre == th[t].pre
              post == SnapOf(sessions', heap')
              was == id \in DOMAIN pre.sessions
          IN  /\ last'.op = "Spawn"
              /\ (last'.res = "ok") <=> (~was /\ last'.started = "ok")
              /\ was => /\ last'.res = "AlreadyExists"
                        /\ last'.started = "na"
                        /\ post = pre
              /\ (~was /\ last'.started # "ok") =>
                        /\ last'.res = "StartError"
                        /\ last'.started = "failed"
                        /\ post = pre
              /\ last'.res = "ok" =>
                    \E new \in DOMAIN post.ptmx \ DOMAIN pre.ptmx :
                        /\ post.sessions = Put(pre.sessions, id, new)
                        /\ heap'[new].id = id
                        /\ post.ptmx[new] = "open"
                        /\ DOMAIN post.ptmx = DOMAIN pre.ptmx \cup {new}
                        /\ \A i \in DOMAIN pre.ptmx : post.ptmx[i] = pre.ptmx[i]
      ]_vars

\* C1 witness: Spawn has refused an id that is registered, its session
\* still running.
SpawnRefusedDuplicate ==
    /\ last.op = "Spawn"
    /\ last.res = "AlreadyExists"
    /\ \E id \in DOMAIN sessions : heap[sessions[id]].ptmx = "open"
    /\ \A t \in Threads : th[t].pc = "idle"

\* C2: Kill(id) on an unregistered id fails with not-found and changes
\* nothing; otherwise it stops that session and removes id from the map,
\* every other entry staying, its session not stopped by the call.
KillContract ==
    [][\A t \in Threads : Returns(t, "Kill") =>
          LET id == th[t].id
              pre == th[t].pre
              post == SnapOf(sessions', heap')
          IN  /\ last'.op = "Kill"
              /\ DOMAIN post.ptmx = DOMAIN pre.ptmx
              /\ IF id \notin DOMAIN pre.sessions
                 THEN /\ last'.res = "NotFound"
                      /\ post = pre
                 ELSE /\ last'.res = "ok"
                      /\ post.sessions = Remove(pre.sessions, id)
                      /\ post.ptmx[pre.sessions[id]] = "closed"
                      /\ \A i \in DOMAIN pre.ptmx \ {pre.sessions[id]} :
                            post.ptmx[i] = pre.ptmx[i]
      ]_vars

\* C2 witness: Kill has removed one of two registered sessions, the other
\* is registered and running.
KillLeftTheOther ==
    /\ last.op = "Kill"
    /\ last.res = "ok"
    /\ \E i \in DOMAIN heap : heap[i].ptmx = "closed"
    /\ \E id \in DOMAIN sessions : heap[sessions[id]].ptmx = "open"
    /\ \A t \in Threads : th[t].pc = "idle"

\* C3: when StopAll returns, every session that was registered at the
\* call has been stopped, the map is empty and Count() is 0; the UI's quit
\* key sets quitting and calls StopAll, and once that call has returned
\* the registry is empty and no session is left running.
StopAllContract ==
    /\ [][\A t \in Threads : (Returns(t, "StopAll") \/ Returns(t, "Quit")) =>
             /\ last'.op = th[t].op
             /\ last'.res = "ok"
             /\ sessions' = <<>>
             /\ CountOf(sessions') = 0
             /\ \A id \in DOMAIN th[t].pre.sessions :
                   heap'[th[t].pre.sessions[id]].ptmx = "closed"
         ]_vars
    /\ [][(quitting' # quitting) =>
             \E t \in Threads : th'[t].op = "Quit" /\ th'[t].pc = "range"]_vars
    /\ [](quitting =>
             \/ \E t \in Threads : th[t].op = "Quit" /\ th[t].pc = "range"
             \/ /\ last.op = "Quit"
                /\ sessions = <<>>
                /\ \A i \in DOMAIN heap : heap[i].ptmx = "closed")

\* C3 witness: the quit key's StopAll has returned, having stopped two
\* registered sessions.
QuitStoppedAll ==
    /\ quitting
    /\ last.op = "Quit"
    /\ Len(heap) = 2
    /\ \A i \in DOMAIN heap : heap[i].ptmx = "closed" /\ heap[i].proc = "killed"
    /\ heap[1].id # heap[2].id

\* Threads inside a Lock()ed section, and inside an RLock()ed one.
Writers == {t \in Threads : th[t].pc # "idle" /\ th[t].op # "ResizeAll"}
Readers == {t \in Threads : th[t].pc # "idle" /\ th[t].op = "ResizeAll"}

\* C4: under every interleaving of the Manager's methods, the sections
\* that look up, insert into or delete from the map exclude one another
\* (one writer, or readers only); no two live sessions carry the same id
\* (two Spawn calls of one id never both succeed); every live session is
\* in the map under its own id, or is being inserted by the Spawn that
\* started it; and no session is in the map twice.
RegistryAtomic ==
    /\ Cardinality(Writers) <= 1
    /\ Writers # {} => Readers = {}
    /\ \A i, j \in DOMAIN heap :
          (i # j /\ heap[i].id = heap[j].id) =>
              ~(heap[i].ptmx = "open" /\ heap[j].ptmx = "open")
    /\ \A i \in DOMAIN heap :
          heap[i].ptmx = "open" =>
              \/ heap[i].id \in DOMAIN sessions /\ sessions[heap[i].id] = i
              \/ \E t \in Threads : /\ th[t].op = "Spawn"
                                    /\ th[t].pc = "insert"
                                    /\ th[t].sess = i
    /\ \A a, b \in DOMAIN sessions : sessions[a] = sessions[b] => a = b
    /\ \A a \in DOMAIN sessions :
          /\ sessions[a] \in DOMAIN heap
          /\ heap[sessions[a]].id = a

\* C4 witness: two goroutines inside ResizeAll at once, over the one
\* registered session, after its id was spawned, killed and spawned again.
ConcurrentCallers ==
    /\ Readers = Threads
    /\ CountOf(sessions) = 1
    /\ Len(heap) = 2
    /\ heap[1].id = heap[2].id

---------------------------------------------------------------------------
\* One started Session at the level of its mutexes.  Write, Output and the
\* readLoop are split where they take a lock or touch the pseudo-terminal.

\* Bytes the pseudo-terminal's input queue holds; a write beyond it blocks
\* until the child reads.
PtyInCap == 2

\* Bytes of child output that may sit unread by the readLoop.
MaxUnread == 2

\* The mutex Output and the readLoop's write of new output take: Session.mu
\* around the vt10x terminal, RingBuffer.mu inside the ring buffer.
OutputMu == IF impl = "vt10x" THEN "s" ELSE "b"

\* sync.RWMutex.RLock returns: no writer holds the lock and none is blocked
\* in Lock.
RWCanRLock(m) == rw[m].w = NoThread /\ rw[m].pend = {}

\* sync.RWMutex.Lock returns: no writer and no reader holds the lock.
RWCanLock(m) == rw[m].w = NoThread /\ rw[m].r = {}

\* Session.Write is called: it blocks in s.mu.RLock until admitted.
WriteCall(g) ==
    /\ gr[g] = "idle"
    /\ gr' = [gr EXCEPT ![g] = "Write:rlock"]
    /\ UNCHANGED <<impl, rw, lp, ptyInQ, ptyOutQ, sessionVars, worktreeVars, uiVars>>

WriteRLock(g) ==
    /\ gr[g] = "Write:rlock"
    /\ RWCanRLock("s")
    /\ rw' = [rw EXCEPT !["s"].r = @ \cup {g}]
    /\ gr' = [gr EXCEPT ![g] = "Write:io"]
    /\ UNCHANGED <<impl, lp, ptyInQ, ptyOutQ, sessionVars, worktreeVars, uiVars>>

\* s.ptmx.Write returns once the input queue takes the byte; the deferred
\* RUnlock runs and Write returns.
WriteIO(g) ==
    /\ gr[g] = "Write:io"
    /\ ptyInQ < PtyInCap
    /\ ptyInQ' = ptyInQ + 1
    /\ rw' = [rw EXCEPT !["s"].r = @ \ {g}]
    /\ gr' = [gr EXCEPT ![g] = "idle"]
    /\ UNCHANGED <<impl, lp, ptyOutQ, sessionVars, worktreeVars, uiVars>>

\* Session.Output is called: it blocks in RLock until admitted.
OutputCall(g) ==
    /\ gr[g] = "idle"
    /\ gr' = [gr EXCEPT ![g] = "Output:rlock"]
    /\ UNCHANGED <<impl, rw, lp, ptyInQ, ptyOutQ, sessionVars, worktreeVars, uiVars>>

OutputRLock(g) ==
    /\ gr[g] = "Output:rlock"
    /\ RWCanRLock(OutputMu)
    /\ rw' = [rw EXCEPT ![OutputMu].r = @ \cup {g}]
    /\ gr' = [gr EXCEPT ![g] = "Output:read"]
    /\ UNCHANGED <<impl, lp, ptyInQ, ptyOutQ, sessionVars, worktreeVars, uiVars>>

\* The buffered screen is read, the deferred RUnlock runs, Output returns.
OutputReturn(g) ==
    /\ gr[g] = "Output:read"
    /\ rw' = [rw EXCEPT ![OutputMu].r = @ \ {g}]
    /\ gr' = [gr EXCEPT ![g] = "idle"]
    /\ UNCHANGED <<impl, lp, ptyInQ, ptyOutQ, sessionVars, worktreeVars, uiVars>>

\* ptmx.Read returns n > 0 and the readLoop calls Lock: from here on it is
\* a blocked writer.
ReadLoopRead ==
    /\ lp = "read"
    /\ ptyOutQ > 0
    /\ ptyOutQ' = 0
    /\ rw' = [rw EXCEPT ![OutputMu].pend = @ \cup {"loop"}]
    /\ lp' = "lock"
    /\ UNCHANGED <<impl, gr, ptyInQ, sessionVars, worktreeVars, uiVars>>

ReadLoopLock ==
    /\ lp = "lock"
    /\ RWCanLock(OutputMu)
    /\ rw' = [rw EXCEPT ![OutputMu].w = "loop", ![OutputMu].pend = @ \ {"loop"}]
    /\ lp' = "apply"
    /\ UNCHANGED <<impl, gr, ptyInQ, ptyOutQ, sessionVars, worktreeVars, uiVars>>

\* The output is written to the terminal or the ring buffer, and Unlock.
ReadLoopApply ==
    /\ lp = "apply"
    /\ rw' = [rw EXCEPT ![OutputMu].w = NoThread]
    /\ lp' = "read"
    /\ UNCHANGED <<impl, gr, ptyInQ, ptyOutQ, sessionVars, worktreeVars, uiVars>>

\* The child writes a byte to its terminal.
ChildEmits ==
    /\ ptyOutQ < MaxUnread
    /\ ptyOutQ' = ptyOutQ + 1
    /\ UNCHANGED <<impl, rw, gr, lp, ptyInQ, sessionVars, worktreeVars, uiVars>>

\* The child reads a byte of its input; nothing obliges it to.
ChildConsumes ==
    /\ ptyInQ > 0
    /\ ptyInQ' = ptyInQ - 1
    /\ UNCHANGED <<impl, rw, gr, lp, ptyOutQ, sessionVars, worktreeVars, uiVars>>

LockInit ==
    /\ impl \in Variants
    /\ rw = [m \in {"s", "b"} |-> NoRW]
    /\ gr = [g \in Callers |-> "idle"]
    /\ lp = "read"
    /\ ptyInQ = 0
    /\ ptyOutQ = 0
    /\ heap = <<>>
    /\ sessions = <<>>
    /\ mu = NoLock
    /\ th = [t \in Threads |-> Idle]
    /\ quitting = FALSE
    /\ last = NoCall
    /\ model = NoModel
    /\ WorktreeAtRest

\* What a goroutine inside Write or Output does next.
CallerStep(g) ==
    \/ WriteRLock(g)
    \/ WriteIO(g)
    \/ OutputRLock(g)
    \/ OutputReturn(g)

ReadLoopStep == ReadLoopRead \/ ReadLoopLock \/ ReadLoopApply

LockNext ==
    \/ \E g \in Callers : WriteCall(g) \/ OutputCall(g) \/ CallerStep(g)
    \/ ReadLoopStep
    \/ ChildEmits
    \/ ChildConsumes

LockSpec == LockInit /\ [][LockNext]_vars

\* Every goroutine that can run does run, and a goroutine blocked in RLock
\* is admitted when the lock is released to readers; the child is under no
\* obligation.
FairLockSpec ==
    /\ LockSpec
    /\ \A g \in Callers : SF_vars(CallerStep(g))
    /\ WF_vars(ReadLoopStep)

\* C11: the redraw tick never blocks on I/O: every call of Output returns,
\* even while a Write to the session is blocked on the pseudo-terminal or
\* the read loop is waiting to apply output.
OutputAlwaysCompletes ==
    \A g \in Callers : (gr[g] = "Output:rlock") ~> (gr[g] = "idle")

---------------------------------------------------------------------------
\* The worktree.Manager: agent records, the state file, git.

\* time.Now() calls in one behaviour.
MaxNow == 2

\* The revision up to which the user commits on the checked-out branch.
MaxRev == 2

\* Length at which slugify cuts the slug.
SlugMax == 30

\* A nil *time.Time.
NoTime == 0

\* The longest of the short tasks CreateWorktree is tried on.
MaxTaskLen == 2

\* The longest tail of the long tasks CreateWorktree is tried on.
MaxTail == 3

\* Two of the ids generateID can draw on one day: "cwt-<date>-<4 hex>".
GenIds == {"cwt-d-0a1b", "cwt-d-c2d3"}

\* Task descriptions, as sequences of characters.
Tasks == {<<"A", " ", "b">>, <<"!">>}

AgentStatus ==
    {"pending", "running", "completed", "merging", "merged", "failed"}

\* The statuses callers of UpdateAgentStatus pass.
StatusUpdates == {"running", "completed"}

\* strings.ToLower on one character: U+00C9 is E with acute, whose lower
\* case is U+00E9; U+212A is the Kelvin sign, whose lower case is k.
Lower(c) ==
    CASE c = "A" -> "a"
      [] c = "B" -> "b"
      [] c = "U+00C9" -> "U+00E9"
      [] c = "U+212A" -> "k"
      [] OTHER -> c

ToLower(s) == [i \in 1..Len(s) |-> Lower(s[i])]

\* The characters the class [^a-z0-9] leaves alone.
IsAlnum(c) == c \in {"a", "b", "k", "1", "2"}

\* s without its leading run of characters matching [^a-z0-9].
RECURSIVE SkipRun(_)
SkipRun(s) ==
    IF Len(s) = 0 \/ IsAlnum(Head(s)) THEN s ELSE SkipRun(Tail(s))

\* reg.ReplaceAllString(s, "-") for reg = [^a-z0-9]+ .
RECURSIVE ReplaceRuns(_)
ReplaceRuns(s) ==
    IF Len(s) = 0 THEN <<>>
    ELSE IF IsAlnum(Head(s)) THEN <<Head(s)>> \o ReplaceRuns(Tail(s))
    ELSE <<"-">> \o ReplaceRuns(SkipRun(s))

RECURSIVE TrimLeft(_)
TrimLeft(s) ==
    IF Len(s) > 0 /\ Head(s) = "-" THEN TrimLeft(Tail(s)) ELSE s

RECURSIVE TrimRight(_)
TrimRight(s) ==
    IF Len(s) > 0 /\ s[Len(s)] = "-"
    THEN TrimRight(SubSeq(s, 1, Len(s) - 1))
    ELSE s

\* strings.Trim(s, "-")
Trim(s) == TrimRight(TrimLeft(s))

\* The slug left as long as it is.
Untruncated(s) == s

\* if len(s) > 30 { s = s[:30] }
Truncate(s) == IF Len(s) > SlugMax THEN SubSeq(s, 1, SlugMax) ELSE s

slugify(s) == Truncate(Trim(ReplaceRuns(ToLower(s))))

\* fmt.Sprintf("cwt/%s/%s", id, slug), by path component.
BranchOf(id, slug) == <<"cwt", id, slug>>

\* filepath.Join(m.repoRoot, m.state.WorktreeDir, id)
WorktreePathOf(s, id) == <<s.repoRoot, s.worktreeDir, id>>

\* git accepts the branch name as a ref: no path component is empty.
ValidRef(branch) == \A i \in 1..Len(branch) : Len(branch[i]) > 0

\* json.MarshalIndent of one Agent: mergedAt is omitted when nil.
MarshalAgent(a) ==
    IF a.mergedAt = NoTime
    THEN [f \in DOMAIN a \ {"mergedAt"} |-> a[f]]
    ELSE a

\* json.MarshalIndent of the State: every field is written, a nil Agents
\* map (the field missing here) as null, which reads back as no key.
Marshal(s) ==
    [f \in DOMAIN s |->
        IF f = "agents"
        THEN [id \in DOMAIN s.agents |-> MarshalAgent(s.agents[id])]
        ELSE s[f]]

\* json.Unmarshal of one Agent, with an absent mergedAt read as the
\* time the agent was created.
UnmarshalAgentStamped(j) ==
    [f \in DOMAIN j \cup {"mergedAt"} |->
        IF f \in DOMAIN j THEN j[f] ELSE j.createdAt]

\* json.Unmarshal of one Agent: an absent mergedAt stays nil.
UnmarshalAgent(j) ==
    [f \in DOMAIN j \cup {"mergedAt"} |->
        IF f \in DOMAIN j THEN j[f] ELSE NoTime]

\* The fields of a MergeRecord, and the zero value json.Unmarshal leaves
\* in each when the file has no such key.
RecordZero ==
    [agentId |-> "", mergedAt |-> NoTime, mergeCommit |-> "",
     conflictsResolved |-> 0, conflictsEscalated |-> 0]

\* json.Unmarshal of one MergeRecord.
UnmarshalRecord(j) ==
    [f \in DOMAIN RecordZero |-> IF f \in DOMAIN j THEN j[f] ELSE RecordZero[f]]

\* json.Unmarshal of a state file that parses into a State: a key the
\* file lacks leaves the zero value, which for Agents is the nil map (no
\* field here).
Unmarshal(d) ==
    [f \in {"version", "repoRoot", "worktreeDir", "mergeHistory"}
           \cup (DOMAIN d \cap {"agents"}) |->
        CASE f = "agents" ->
                [id \in DOMAIN d.agents |-> UnmarshalAgent(d.agents[id])]
          [] f = "mergeHistory" ->
                IF f \in DOMAIN d
                THEN [i \in DOMAIN d[f] |-> UnmarshalRecord(d[f][i])]
                ELSE <<>>
          [] OTHER -> IF f \in DOMAIN d THEN d[f] ELSE ""]

\* LoadState's last step, left out.
EnsureAgentsSkipped(s) == s

\* LoadState's last step: a nil Agents map is replaced by an empty one.
EnsureAgents(s) ==
    IF "agents" \in DOMAIN s THEN s
    ELSE [f \in DOMAIN s \cup {"agents"} |->
             IF f = "agents" THEN <<>> ELSE s[f]]

\* LoadState on the state file d: its error and, when it is nil, the State
\* it returns.
LoadState(d) ==
    CASE d.kind = "absent" -> [err |-> "nil", state |-> NewState]
      [] d.kind = "unreadable" -> [err |-> "read"]
      [] d.kind = "json" ->
            [err |-> "nil", state |-> EnsureAgents(Unmarshal(d.data))]
      [] OTHER -> [err |-> "parse"]

\* How a call of State.Save can end: the file is written; the directory or
\* the file cannot be created or opened; the write fails after the file
\* was truncated.
SaveOutcomes == {"ok", "unwritable", "partial"}

\* The state file of the repository after s.Save() ended with outcome o,
\* d being the file before: Save writes under s.RepoRoot.
Save(s, d, o) ==
    CASE o = "ok" ->
            IF s.repoRoot = NewState.repoRoot
            THEN [kind |-> "json", data |-> Marshal(s)]
            ELSE d
      [] o = "unwritable" -> d
      [] OTHER -> [kind |-> "garbage", data |-> <<>>]

\* The error Save returns.
SaveErrSwallowed(o) == "nil"

SaveErr(o) == IF o = "ok" THEN "nil" ELSE "save"

\* The state file holds exactly the State s.
Holds(d, s) == d.kind = "json" /\ Unmarshal(d.data) = s

\* State.AddAgent
AddAgent(s, agent) == [s EXCEPT !.agents = Put(@, agent.id, agent)]

\* State.RemoveAgent, leaving the record in.
RemoveAgentKeeps(s, id) == s

\* State.RemoveAgent
RemoveAgent(s, id) == [s EXCEPT !.agents = Remove(@, id)]

\* State.GetAgent's ok.
Tracked(s, id) == id \in DOMAIN s.agents

\* One run of git by Manager.git, and whether it exited with status 0.
Git(cmd, arg, ok) == [cmd |-> cmd, arg |-> arg, ok |-> ok]

\* git worktree add -b branch path can succeed: the name is a valid ref,
\* the branch does not exist and nothing is at the path.
CanWorktreeAdd(r, branch, path) ==
    /\ ValidRef(branch)
    /\ branch \notin r.branches
    /\ path \notin DOMAIN r.worktrees

GitWorktreeAdd(r, branch, path) ==
    [r EXCEPT !.branches = @ \cup {branch}, !.worktrees = Put(@, path, branch)]

\* git worktree remove [--force] path can succeed: path is a worktree.
CanWorktreeRemove(r, path) == path \in DOMAIN r.worktrees

GitWorktreeRemove(r, path) == [r EXCEPT !.worktrees = Remove(@, path)]

\* git branch -d|-D can succeed: the branch exists and is checked out
\* nowhere.
CanBranchDelete(r, branch) ==
    /\ branch \in r.branches
    /\ branch # r.head
    /\ \A p \in DOMAIN r.worktrees : r.worktrees[p] # branch

GitBranchDelete(r, branch) ==
    [r EXCEPT !.branches = @ \ {branch}, !.merged = @ \ {branch}]

\* git checkout branch can succeed: the branch exists and no merge is
\* stopped on conflicts.
CanCheckout(r, branch) == branch \in r.branches /\ ~r.conflict

GitCheckout(r, branch) == [r EXCEPT !.head = branch]

\* git merge --no-ff branch can succeed: the branch exists and no merge is
\* stopped on conflicts.
CanMerge(r, branch) == branch \in r.branches /\ ~r.conflict

\* The merge commits, unless the branch was merged already.
GitMerge(r, branch) ==
    [r EXCEPT !.rev = IF branch \in r.merged THEN @ ELSE @ + 1,
              !.merged = @ \cup {branch}]

\* The merge that could have succeeded fails: it stops on conflicts, with
\* the conflicted tree left in place.
GitMergeFails(r, branch) ==
    IF CanMerge(r, branch) THEN [r EXCEPT !.conflict = TRUE] ELSE r

\* The state a method finds when it is called.
Snapshot == [state |-> state, disk |-> disk, repo |-> repo]

\* Nothing has returned since the method now running was called.
Pending == [NoReturn EXCEPT !.seq = ret.seq]

\* Method op is entered in goroutine c, with these locals.
Enter(c, op, id, task, branch, path, pc) ==
    /\ call' = [call EXCEPT ![c] =
                   [NoMethod EXCEPT !.op = op, !.pc = pc, !.id = id,
                                    !.task = task, !.branch = branch,
                                    !.path = path, !.pre = Snapshot]]
    /\ ret' = Pending

\* The method running in c moves on to pc, having run the git commands g.
Goto(c, pc, g) ==
    call' = [call EXCEPT ![c].pc = pc, ![c].cmds = @ \o g]

\* Method op returns err, having run the git commands g last; id is the
\* agent CreateWorktree returns, or the id the other methods were called
\* with.
Return(c, op, err, id, g) ==
    /\ call' = [call EXCEPT ![c] = NoMethod]
    /\ ret' = [op |-> op, by |-> c, err |-> err, id |-> id,
               cmds |-> call[c].cmds \o g, val |-> "none",
               seq |-> 1 - ret.seq]

\* The Agent record CreateWorktree builds in goroutine c at time t, with
\* every status but the one it should have.
NewAgentPending(c, t) ==
    [id |-> call[c].id, branch |-> call[c].branch, worktree |-> call[c].path,
     task |-> call[c].task, status |-> "pending",
     baseBranch |-> call[c].baseBranch, baseCommit |-> call[c].baseCommit,
     createdAt |-> t, mergedAt |-> NoTime]

\* The Agent record CreateWorktree builds in goroutine c at time t.
NewAgent(c, t) ==
    [id |-> call[c].id, branch |-> call[c].branch, worktree |-> call[c].path,
     task |-> call[c].task, status |-> "running",
     baseBranch |-> call[c].baseBranch, baseCommit |-> call[c].baseCommit,
     createdAt |-> t, mergedAt |-> NoTime]

\* CreateWorktree's clean-up on a failed save, left out.
NoCleanup(c, ok1, ok2) == <<>>

\* CreateWorktree's clean-up on a failed save: git worktree remove and
\* git branch -D, each exiting as it may.
Cleanup(c, ok1, ok2) ==
    <<Git("worktree remove", call[c].path, ok1),
      Git("branch -D", call[c].branch, ok2)>>

\* The repository after the runs of git in g that exited with status 0.
RECURSIVE Apply(_, _)
Apply(r, g) ==
    IF Len(g) = 0 THEN r
    ELSE LET x == Head(g)
             r1 == CASE ~x.ok -> r
                      [] x.cmd \in {"worktree remove", "worktree remove --force"}
                            -> GitWorktreeRemove(r, x.arg)
                      [] x.cmd \in {"branch -d", "branch -D"}
                            -> GitBranchDelete(r, x.arg)
                      [] x.cmd = "worktree add"
                            -> GitWorktreeAdd(r, x.arg[1], x.arg[2])
                      [] x.cmd = "checkout" -> GitCheckout(r, x.arg)
                      [] x.cmd = "merge --no-ff" -> GitMerge(r, x.arg)
                      [] OTHER -> r
         IN  Apply(r1, Tail(g))

\* CreateWorktree is called: the id is drawn, slug, branch name and
\* worktree path are derived.
CreateWorktree(c, task) ==
    /\ call[c].pc = "idle"
    /\ now < MaxNow
    /\ \E id \in GenIds :
          Enter(c, "CreateWorktree", id, task, BranchOf(id, slugify(task)),
                WorktreePathOf(state, id), "branch")
    /\ UNCHANGED <<state, disk, repo, now, sessionVars, lockVars, uiVars>>

\* GetCurrentBranch: git rev-parse --abbrev-ref HEAD.
CreateGetBranch(c) ==
    /\ call[c].pc = "branch"
    /\ \E ok \in BOOLEAN :
          LET g == <<Git("rev-parse --abbrev-ref", <<"HEAD">>, ok)>> IN
          IF ok
          THEN /\ call' = [call EXCEPT ![c].pc = "commit",
                                       ![c].baseBranch = repo.head,
                                       ![c].cmds = @ \o g]
               /\ UNCHANGED ret
          ELSE Return(c, "CreateWorktree", "get current branch", "none", g)
    /\ UNCHANGED <<state, disk, repo, now, sessionVars, lockVars, uiVars>>

\* GetCurrentCommit: git rev-parse HEAD.
CreateGetCommit(c) ==
    /\ call[c].pc = "commit"
    /\ \E ok \in BOOLEAN :
          LET g == <<Git("rev-parse", <<"HEAD">>, ok)>> IN
          IF ok
          THEN /\ call' = [call EXCEPT ![c].pc = "add",
                                       ![c].baseCommit = repo.rev,
                                       ![c].cmds = @ \o g]
               /\ UNCHANGED ret
          ELSE Return(c, "CreateWorktree", "get current commit", "none", g)
    /\ UNCHANGED <<state, disk, repo, now, sessionVars, lockVars, uiVars>>

\* git worktree add -b branch path.
CreateAdd(c) ==
    /\ call[c].pc = "add"
    /\ \E ok \in BOOLEAN :
          LET g == <<Git("worktree add", <<call[c].branch, call[c].path>>, ok)>>
          IN
          /\ ok => CanWorktreeAdd(repo, call[c].branch, call[c].path)
          /\ repo' = Apply(repo, g)
          /\ IF ok
             THEN Goto(c, "save", g) /\ UNCHANGED ret
             ELSE Return(c, "CreateWorktree", "create worktree", "none", g)
    /\ UNCHANGED <<state, disk, now, sessionVars, lockVars, uiVars>>

\* The agent record is built and added, the state is saved; if the save
\* fails the worktree and the branch are cleaned up.
CreateSave(c) ==
    /\ call[c].pc = "save"
    /\ now' = now + 1
    /\ state' = AddAgent(state, NewAgent(c, now'))
    /\ \E o \in SaveOutcomes :
          /\ disk' = Save(state', disk, o)
          /\ IF o = "ok"
             THEN /\ repo' = repo
                  /\ Return(c, "CreateWorktree", "nil", call[c].id, <<>>)
             ELSE \E ok1, ok2 \in BOOLEAN :
                     LET g == Cleanup(c, ok1, ok2) IN
                     /\ ok1 => CanWorktreeRemove(repo, call[c].path)
                     /\ ok2 <=> (ok1 /\ CanBranchDelete(
                                    GitWorktreeRemove(repo, call[c].path),
                                    call[c].branch))
                     /\ repo' = Apply(repo, g)
                     /\ Return(c, "CreateWorktree", "save state", "none", g)
    /\ UNCHANGED <<sessionVars, lockVars, uiVars>>

\* git cmd on arg, and git forced on arg if that failed, each exiting as
\* it may; with the forced run made whatever the first did.
AlwaysForced(cmd, forced, arg, ok1, ok2) ==
    <<Git(cmd, arg, ok1), Git(forced, arg, ok2)>>

\* git cmd on arg, and git forced on arg if that failed, each exiting as
\* it may.
Fallback(cmd, forced, arg, ok1, ok2) ==
    <<Git(cmd, arg, ok1)>> \o
    IF ok1 THEN <<>> ELSE <<Git(forced, arg, ok2)>>

\* RemoveWorktree is called: the agent is looked up.
RemoveWorktree(c, id) ==
    /\ call[c].pc = "idle"
    /\ IF Tracked(state, id)
       THEN /\ Enter(c, "RemoveWorktree", id, state.agents[id].task,
                     state.agents[id].branch, state.agents[id].worktree,
                     "worktree")
       ELSE Return(c, "RemoveWorktree", "not found", id, <<>>)
    /\ UNCHANGED <<state, disk, repo, now, sessionVars, lockVars, uiVars>>

\* git worktree remove, and with --force if that failed.
RemoveGitWorktree(c) ==
    /\ call[c].pc = "worktree"
    /\ \E ok1, ok2 \in BOOLEAN :
          LET g == Fallback("worktree remove", "worktree remove --force",
                            call[c].path, ok1, ok2)
          IN
          /\ ok1 => ~ok2 /\ CanWorktreeRemove(repo, call[c].path)
          /\ ok2 => CanWorktreeRemove(repo, call[c].path)
          /\ repo' = Apply(repo, g)
          /\ Goto(c, "branch-d", g)
    /\ UNCHANGED <<state, disk, ret, now, sessionVars, lockVars, uiVars>>

\* git branch -d, and -D if that failed.
RemoveGitBranch(c) ==
    /\ call[c].pc = "branch-d"
    /\ \E ok1, ok2 \in BOOLEAN :
          LET g == Fallback("branch -d", "branch -D", call[c].branch,
                            ok1, ok2)
          IN
          /\ ok1 => ~ok2 /\ CanBranchDelete(repo, call[c].branch)
          /\ ~ok1 => (ok2 <=> CanBranchDelete(repo, call[c].branch))
          /\ repo' = Apply(repo, g)
          /\ Goto(c, "remove", g)
    /\ UNCHANGED <<state, disk, ret, now, sessionVars, lockVars, uiVars>>

\* The agent is removed from the state and the state is saved.
RemoveSave(c) ==
    /\ call[c].pc = "remove"
    /\ state' = RemoveAgent(state, call[c].id)
    /\ \E o \in SaveOutcomes :
          /\ disk' = Save(state', disk, o)
          /\ Return(c, "RemoveWorktree", SaveErr(o), call[c].id, <<>>)
    /\ UNCHANGED <<repo, now, sessionVars, lockVars, uiVars>>

\* UpdateAgentStatus, whole.
UpdateAgentStatus(c, id, status) ==
    /\ call[c].pc = "idle"
    /\ IF Tracked(state, id)
       THEN /\ state' = [state EXCEPT !.agents[id].status = status]
            /\ \E o \in SaveOutcomes :
                  /\ disk' = Save(state', disk, o)
                  /\ Return(c, "UpdateAgentStatus", SaveErr(o), id, <<>>)
       ELSE /\ Return(c, "UpdateAgentStatus", "not found", id, <<>>)
            /\ UNCHANGED <<state, disk>>
    /\ UNCHANGED <<repo, now, sessionVars, lockVars, uiVars>>

\* The State after a query looked agent id up, with the agent marked.
AfterQueryMarked(s, id) ==
    IF Tracked(s, id) THEN [s EXCEPT !.agents[id].status = "completed"]
    ELSE s

\* The State after a query looked agent id up: GetAgent's pointer is only
\* read.
AfterQuery(s, id) == s

\* A query on id returns val and err, having run the git commands g, none
\* of which writes to the repository.
Query(c, op, id, g, val, err) ==
    /\ call[c].pc = "idle"
    /\ state' = AfterQuery(state, id)
    /\ ret' = [op |-> op, by |-> c, err |-> err, id |-> id, cmds |-> g,
               val |-> val, seq |-> 1 - ret.seq]
    /\ UNCHANGED <<disk, repo, call, now, sessionVars, lockVars, uiVars>>

\* base...branch and base..branch, the revisions git diff and git log are
\* given.
RevRange(a, dots) == <<a.baseBranch, dots, a.branch>>

\* GetDiff, whole: git diff base...branch, its output and error returned.
GetDiff(c, id) ==
    IF Tracked(state, id)
    THEN \E ok \in BOOLEAN :
            Query(c, "GetDiff", id,
                  <<Git("diff", RevRange(state.agents[id], "..."), ok)>>,
                  "output", IF ok THEN "nil" ELSE "git")
    ELSE Query(c, "GetDiff", id, <<>>, "none", "not found")

\* GetCommits, whole: git log --oneline base..branch, its output and error
\* returned.
GetCommits(c, id) ==
    IF Tracked(state, id)
    THEN \E ok \in BOOLEAN :
            Query(c, "GetCommits", id,
                  <<Git("log --oneline", RevRange(state.agents[id], ".."), ok)>>,
                  "output", IF ok THEN "nil" ELSE "git")
    ELSE Query(c, "GetCommits", id, <<>>, "none", "not found")

\* HasConflicts, whole: git merge-base, whose error is returned, then git
\* merge-tree, whose error is dropped and whose output is searched for a
\* conflict marker.
HasConflicts(c, id) ==
    IF Tracked(state, id)
    THEN LET a == state.agents[id] IN
         \E ok1, ok2, marker \in BOOLEAN :
            IF ok1
            THEN Query(c, "HasConflicts", id,
                       <<Git("merge-base", <<a.baseBranch, a.branch>>, ok1),
                         Git("merge-tree", <<a.baseBranch, a.branch>>, ok2)>>,
                       IF marker THEN "true" ELSE "false", "nil")
            ELSE /\ ~ok2 /\ ~marker
                 /\ Query(c, "HasConflicts", id,
                          <<Git("merge-base", <<a.baseBranch, a.branch>>,
                                ok1)>>,
                          "false", "git")
    ELSE Query(c, "HasConflicts", id, <<>>, "false", "not found")

\* Merge is called: the agent is looked up, set to merging and the state
\* is saved, whatever Save returns.
Merge(c, id) ==
    /\ call[c].pc = "idle"
    /\ now < MaxNow
    /\ IF Tracked(state, id)
       THEN /\ state' = [state EXCEPT !.agents[id].status = "merging"]
            /\ \E o \in SaveOutcomes : disk' = Save(state', disk, o)
            /\ call' = [call EXCEPT ![c] =
                           [NoMethod EXCEPT
                               !.op = "Merge", !.pc = "checkout", !.id = id,
                               !.task = state.agents[id].task,
                               !.branch = state.agents[id].branch,
                               !.baseBranch = state.agents[id].baseBranch,
                               !.pre = Snapshot]]
            /\ ret' = Pending
       ELSE /\ Return(c, "Merge", "not found", id, <<>>)
            /\ UNCHANGED <<state, disk>>
    /\ UNCHANGED <<repo, now, sessionVars, lockVars, uiVars>>

\* git checkout of the base branch.
MergeCheckout(c) ==
    /\ call[c].pc = "checkout"
    /\ \E ok \in BOOLEAN :
          LET g == <<Git("checkout", call[c].baseBranch, ok)>> IN
          /\ ok => CanCheckout(repo, call[c].baseBranch)
          /\ repo' = Apply(repo, g)
          /\ IF ok
             THEN Goto(c, "merge", g) /\ UNCHANGED ret
             ELSE Return(c, "Merge", "checkout", call[c].id, g)
    /\ UNCHANGED <<state, disk, now, sessionVars, lockVars, uiVars>>

\* git merge --no-ff -m msg branch.
MergeGit(c) ==
    /\ call[c].pc = "merge"
    /\ \E ok \in BOOLEAN :
          LET g == <<Git("merge --no-ff", call[c].branch, ok)>> IN
          /\ ok => CanMerge(repo, call[c].branch)
          /\ IF ok
             THEN /\ repo' = Apply(repo, g)
                  /\ Goto(c, "merged", g)
                  /\ UNCHANGED ret
             ELSE /\ repo' = GitMergeFails(repo, call[c].branch)
                  /\ Return(c, "Merge", "merge", call[c].id, g)
    /\ UNCHANGED <<state, disk, now, sessionVars, lockVars, uiVars>>

\* The agent merged at time t, its time of merging left out.
MergedNoStamp(a, t) == [a EXCEPT !.status = "merged"]

\* The agent merged at time t.
Merged(a, t) == [a EXCEPT !.status = "merged", !.mergedAt = t]

\* The *Agent Merge got from GetAgent in goroutine c is still the one in
\* the map: the agent was not removed, or removed and created anew, since.
Pointee(c) ==
    /\ Tracked(state, call[c].id)
    /\ state.agents[call[c].id].createdAt =
          call[c].pre.state.agents[call[c].id].createdAt

\* The agent is set to merged with the time of merging, through the
\* pointer Merge holds, the state is saved and Save's error returned.
MergeFinish(c) ==
    /\ call[c].pc = "merged"
    /\ now' = now + 1
    /\ state' = IF Pointee(c)
                THEN [state EXCEPT !.agents[call[c].id] = Merged(@, now')]
                ELSE state
    /\ \E o \in SaveOutcomes :
          /\ disk' = Save(state', disk, o)
          /\ Return(c, "Merge", SaveErr(o), call[c].id, <<>>)
    /\ UNCHANGED <<repo, sessionVars, lockVars, uiVars>>

\* Whoever resolves merges outside cwt gives up on the conflicted merge:
\* git merge --abort.
MergeAborted ==
    /\ repo.conflict
    /\ \A c \in DOMAIN call : call[c].pc = "idle"
    /\ repo' = [repo EXCEPT !.conflict = FALSE]
    /\ UNCHANGED <<state, disk, call, ret, now, sessionVars, lockVars, uiVars>>

\* The user commits on the checked-out branch, between two calls: HEAD
\* moves on.
UserCommits ==
    /\ repo.rev < MaxRev
    /\ ~repo.conflict
    /\ \A c \in DOMAIN call : call[c].pc = "idle"
    /\ repo' = [repo EXCEPT !.rev = @ + 1]
    /\ UNCHANGED <<state, disk, call, ret, now, sessionVars, lockVars, uiVars>>

WorktreeInit ==
    /\ WorktreeAtRest
    /\ LockAtRest
    /\ heap = <<>>
    /\ sessions = <<>>
    /\ mu = NoLock
    /\ th = [t \in Threads |-> Idle]
    /\ quitting = FALSE
    /\ last = NoCall
    /\ model = NoModel

WorktreeNext ==
    \/ \E c \in WtCallers :
          \/ \E task \in Tasks : CreateWorktree(c, task)
          \/ CreateGetBranch(c) \/ CreateGetCommit(c) \/ CreateAdd(c)
          \/ CreateSave(c)
          \/ \E id \in GenIds : RemoveWorktree(c, id)
          \/ RemoveGitWorktree(c) \/ RemoveGitBranch(c) \/ RemoveSave(c)
          \/ \E id \in GenIds, s \in StatusUpdates : UpdateAgentStatus(c, id, s)
          \/ \E id \in GenIds : Merge(c, id)
          \/ MergeCheckout(c) \/ MergeGit(c) \/ MergeFinish(c)
          \/ \E id \in GenIds : GetDiff(c, id)
          \/ \E id \in GenIds : GetCommits(c, id)
          \/ \E id \in GenIds : HasConflicts(c, id)
    \/ MergeAborted
    \/ UserCommits

WorktreeSpec == WorktreeInit /\ [][WorktreeNext]_vars

---------------------------------------------------------------------------
\* Two goroutines calling the mutating methods of one Manager, which has
\* no lock: the steps of their calls interleave.

\* Two goroutines are about to touch the Agents map at once, one of them
\* to write it (AddAgent, RemoveAgent), the other to write it or to read
\* it (Save marshalling it): the Go runtime may stop the process with
\* "fatal error: concurrent map writes".
MapFault ==
    /\ \E c1, c2 \in DOMAIN call :
          /\ c1 # c2
          /\ call[c1].pc \in {"save", "remove"}
          /\ call[c2].pc \in {"save", "remove", "merged"}
    /\ call' = [c \in DOMAIN call |-> [call[c] EXCEPT !.pc = "dead"]]
    /\ ret' = [Pending EXCEPT !.op = "fatal", !.err = "concurrent map writes",
                             !.seq = 1 - ret.seq]
    /\ UNCHANGED <<state, disk, repo, now, sessionVars, lockVars, uiVars>>

ConcurrentInit ==
    /\ LockAtRest
    /\ state = NewState
    /\ disk = NoFile
    /\ repo = FreshRepo
    /\ call = [c \in Callers |-> NoMethod]
    /\ ret = NoReturn
    /\ now = 0
    /\ heap = <<>>
    /\ sessions = <<>>
    /\ mu = NoLock
    /\ th = [t \in Threads |-> Idle]
    /\ quitting = FALSE
    /\ last = NoCall
    /\ model = NoModel

\* The one id generateID draws here, and the one task.
OneId == "cwt-d-0a1b"

OneTask == <<"A", " ", "b">>

\* CreateWorktree is called on the one task and draws the one id.
CreateOne(c) ==
    /\ CreateWorktree(c, OneTask)
    /\ call'[c].id = OneId

ConcurrentNext ==
    \/ \E c \in Callers :
          \/ CreateOne(c)
          \/ CreateGetBranch(c) \/ CreateGetCommit(c) \/ CreateAdd(c)
          \/ CreateSave(c)
          \/ RemoveWorktree(c, OneId)
          \/ RemoveGitWorktree(c) \/ RemoveGitBranch(c) \/ RemoveSave(c)
          \/ Merge(c, OneId)
          \/ MergeCheckout(c) \/ MergeGit(c) \/ MergeFinish(c)
    \/ MapFault

ConcurrentSpec == ConcurrentInit /\ [][ConcurrentNext]_vars

---------------------------------------------------------------------------
\* The state store by itself: LoadState (through NewManager) and Save on
\* the states and the state files below.

\* An agent of the states below.
StoreAgent(id, status, mergedAt) ==
    [id |-> id, branch |-> BranchOf(id, <<"a">>),
     worktree |-> WorktreePathOf(NewState, id), task |-> <<"A">>,
     status |-> status, baseBranch |-> <<"main">>, baseCommit |-> 1,
     createdAt |-> 1, mergedAt |-> mergedAt]

\* The agent maps of the states below: any of the ids, each agent running
\* or merged, with or without a time of merging.
StoreAgentMaps ==
    UNION {{[id \in S |-> StoreAgent(id, f[id][1], f[id][2])] :
               f \in [S -> {"running", "merged"} \X {NoTime, 2}]} :
           S \in SUBSET GenIds}

\* The merge histories of the states below: none, or one record.
StoreHistories ==
    {<<>>} \cup
    {<<[agentId |-> id, mergedAt |-> 2, mergeCommit |-> "c0ffee",
        conflictsResolved |-> 1, conflictsEscalated |-> 0]>> : id \in GenIds}

\* The States a Manager may hold.
StoreStates ==
    {[NewState EXCEPT !.agents = a, !.mergeHistory = h] :
        a \in StoreAgentMaps, h \in StoreHistories}

\* State files written by hand or by another version: an empty object; one
\* with no agents key; one written when the repository was elsewhere; one
\* whose merge record lacks keys.
OddFiles ==
    {<<>>,
     [version |-> "1.0", worktreeDir |-> ".worktrees"],
     [Marshal(NewState) EXCEPT !.repoRoot = "/old"],
     [version |-> "1.0", agents |-> <<>>,
      mergeHistory |-> <<[agentId |-> "cwt-d-0a1b"]>>]}

\* The state files NewManager may find: none, one it may not read, one
\* that is no JSON or does not fit a State, and those that parse.
StoreFiles ==
    {NoFile, [kind |-> "unreadable", data |-> <<>>],
     [kind |-> "garbage", data |-> <<>>]}
    \cup {[kind |-> "json", data |-> Marshal(s)] : s \in StoreStates}
    \cup {[kind |-> "json", data |-> d] : d \in OddFiles}

\* A call on the state store in goroutine c returns err.
StoreReturn(c, op, err) ==
    ret' = [op |-> op, by |-> c, err |-> err, id |-> "none", cmds |-> <<>>,
            val |-> "none", seq |-> 1 - ret.seq]

\* NewManager, whole: the repository is checked for .git, the state is
\* loaded and its RepoRoot set.
NewManager(c) ==
    /\ call[c].pc = "idle"
    /\ \E git \in BOOLEAN :
          LET r == LoadState(disk) IN
          IF ~git
          THEN StoreReturn(c, "NewManager", "not a git repository")
               /\ UNCHANGED state
          ELSE IF r.err = "nil"
          THEN /\ state' = [r.state EXCEPT !.repoRoot = NewState.repoRoot]
               /\ StoreReturn(c, "NewManager", "nil")
          ELSE /\ StoreReturn(c, "NewManager", "failed to load state")
               /\ UNCHANGED state
    /\ UNCHANGED <<disk, repo, call, now, sessionVars, lockVars, uiVars>>

\* State.Save on the Manager's state, whole.
StateSave(c) ==
    /\ call[c].pc = "idle"
    /\ \E o \in SaveOutcomes :
          /\ disk' = Save(state, disk, o)
          /\ StoreReturn(c, "Save", SaveErr(o))
    /\ UNCHANGED <<state, repo, call, now, sessionVars, lockVars, uiVars>>

StoreInit ==
    /\ LockAtRest
    /\ state \in StoreStates
    /\ disk \in StoreFiles
    /\ repo = FreshRepo
    /\ call = [c \in WtCallers |-> NoMethod]
    /\ ret = NoReturn
    /\ now = 0
    /\ heap = <<>>
    /\ sessions = <<>>
    /\ mu = NoLock
    /\ th = [t \in Threads |-> Idle]
    /\ quitting = FALSE
    /\ last = NoCall
    /\ model = NoModel

StoreNext == \E c \in WtCallers : NewManager(c) \/ StateSave(c)

StoreSpec == StoreInit /\ [][StoreNext]_vars

---------------------------------------------------------------------------
\* CreateWorktree on many tasks, each in a repository with no agent yet.

\* The characters tasks are made of: ASCII letters of both cases, a digit,
\* a space, punctuation, the separator itself, and two letters outside
\* ASCII.
TaskChars == {"A", "b", "1", " ", "!", "-", "U+00C9", "U+212A"}

\* The sequences over S of length n.
Seqs(S, n) == [1..n -> S]

\* Short tasks: every sequence of at most MaxTaskLen characters.
ShortTasks == UNION {Seqs(TaskChars, n) : n \in 0..MaxTaskLen}

\* Long tasks: about SlugMax letters, then at most MaxTail spaces and
\* letters.
LongTasks ==
    {[i \in 1..n |-> "a"] \o tail :
        n \in (SlugMax - 2)..(SlugMax + 1),
        tail \in UNION {Seqs({" ", "b"}, k) : k \in 0..MaxTail}}

SlugTasks == ShortTasks \cup LongTasks

\* CreateWorktree is called on task while no agent is tracked.
CreateFirst(c, task) ==
    /\ DOMAIN state.agents = {}
    /\ CreateWorktree(c, task)

SlugNext ==
    \E c \in WtCallers :
       \/ \E task \in SlugTasks : CreateFirst(c, task)
       \/ CreateGetBranch(c) \/ CreateGetCommit(c) \/ CreateAdd(c)
       \/ CreateSave(c)

SlugSpec == WorktreeInit /\ [][SlugNext]_vars

---------------------------------------------------------------------------
\* Claims about the worktree.Manager.

\* This step is the return of Manager method op.
WtReturns(op) == ret'.seq # ret.seq /\ ret'.op = op

\* What the method returning in this step found when it was called.
Pre ==
    LET c == ret'.by IN
    IF call[c].pc = "idle" THEN Snapshot ELSE call[c].pre

\* The locals of the method returning in this step.
Locals == call[ret'.by]

\* C12: createBranch never returns an agent whose id is that of an agent
\* already tracked: no tracked record is overwritten.
CreatedIdIsFresh ==
    [][(WtReturns("CreateWorktree") /\ ret'.err = "nil") =>
          /\ ~Tracked(Pre.state, ret'.id)
          /\ ~Tracked(state, ret'.id)
      ]_vars

CreateRollsBack ==
    [][(WtReturns("CreateWorktree") /\ ret'.err # "nil") =>
          IF ret'.err = "save state"
          THEN LET g == ret'.cmds
                   n == Len(g)
               IN  /\ n >= 3
                   /\ g[n - 2] = Git("worktree add",
                                     <<Locals.branch, Locals.path>>, TRUE)
                   /\ g[n - 1].cmd = "worktree remove"
                   /\ g[n - 1].arg = Locals.path
                   /\ g[n].cmd = "branch -D"
                   /\ g[n].arg = Locals.branch
                   /\ g[n - 1].ok => Locals.path \notin DOMAIN repo'.worktrees
                   /\ g[n].ok => Locals.branch \notin repo'.branches
          ELSE /\ repo' = Pre.repo
               /\ state' = Pre.state
               /\ disk' = Pre.disk
      ]_vars

\* C14 witness: createBranch has returned the save error, having created
\* the working copy and removed it and the branch again.
CreateRolledBack ==
    /\ ret.op = "CreateWorktree"
    /\ ret.err = "save state"
    /\ Len(ret.cmds) = 5
    /\ ret.cmds[3].ok /\ ret.cmds[4].ok /\ ret.cmds[5].ok
    /\ repo.branches = {<<"main">>}
    /\ DOMAIN repo.worktrees = {}

\* C15: a Manager operation in which persisting the state fails returns an
\* error and leaves the tracked state in memory exactly as it was before
\* the call.
SaveFailureLeavesMemory ==
    [][(ret'.seq # ret.seq /\ ret'.err \in {"save", "save state"}) =>
          state' = Pre.state
      ]_vars

\* The state file records agent id with this status.
OnDisk(d, id, status) ==
    /\ d.kind = "json"
    /\ id \in DOMAIN d.data.agents
    /\ d.data.agents[id].status = status

\* C16: whenever the checkout or the merge step of merge(id) is about to
\* execute, the state file already records the agent as merging.
MergingPersistedFirst ==
    \A c \in DOMAIN call :
       (call[c].op = "Merge" /\ call[c].pc \in {"checkout", "merge"}) =>
           OnDisk(disk, call[c].id, "merging")

\* C17: when merge(id) returns success the agent is merged with its merge
\* time set, in memory and in the state file, and was merging just before;
\* merge(id) of an untracked id fails with not-found and changes nothing.
MergeContract ==
    [][WtReturns("Merge") =>
          /\ ret'.err = "nil" =>
                LET id == Locals.id IN
                /\ state.agents[id].status = "merging"
                /\ state'.agents[id].status = "merged"
                /\ state'.agents[id].mergedAt # NoTime
                /\ Holds(disk', state')
                /\ OnDisk(disk', id, "merged")
                /\ "mergedAt" \in DOMAIN disk'.data.agents[id]
                /\ disk'.data.agents[id].mergedAt = state'.agents[id].mergedAt
          /\ ret'.err = "not found" =>
                /\ Locals.pc = "idle"
                /\ state' = state /\ disk' = disk /\ repo' = repo
      ]_vars

\* C17 witness: merge has just returned success for an agent created
\* earlier, beside an untracked id.
MergeSucceeded ==
    /\ ret.op = "Merge"
    /\ ret.err = "nil"
    /\ \E id \in DOMAIN state.agents :
          /\ state.agents[id].status = "merged"
          /\ state.agents[id].mergedAt = now
          /\ state.agents[id].branch \in repo.merged
    /\ DOMAIN state.agents # GenIds

\* C18: a failing merge (checkout or merge fails) leaves the agent merging
\* in memory and in the state file, sets no merge time, returns the error
\* and does not abort the merge in progress.
FailedMergeStaysMerging ==
    [][(WtReturns("Merge") /\ ret'.err \in {"checkout", "merge"}) =>
          LET id == Locals.id IN
          /\ state'.agents[id].status = "merging"
          /\ state'.agents[id].mergedAt = Pre.state.agents[id].mergedAt
          /\ OnDisk(disk', id, "merging")
          /\ \A i \in 1..Len(ret'.cmds) : ret'.cmds[i].cmd # "merge --abort"
      ]_vars

\* Where a status stands along pending, running, completed, merging, and
\* then merged or failed.
Rank(status) ==
    CASE status = "pending" -> 0
      [] status = "running" -> 1
      [] status = "completed" -> 2
      [] status = "merging" -> 3
      [] OTHER -> 4

\* C19: the status of an agent only moves forward along pending, running,
\* completed, merging, merged or failed: never backward, and to merged
\* only from merging.
StatusMovesForward ==
    [][\A id \in DOMAIN state.agents \cap DOMAIN state'.agents :
          LET a == state.agents[id]
              b == state'.agents[id]
          IN  (a.createdAt = b.createdAt /\ a.status # b.status) =>
                 /\ Rank(a.status) < Rank(b.status)
                 /\ b.status = "merged" => a.status = "merging"
      ]_vars

\* C20: whenever createBranch, removeBranch, merge or a status update
\* returns success, the state file is identical to the state in memory.
SuccessMeansPersisted ==
    [][(/\ ret'.seq # ret.seq
        /\ ret'.op \in {"CreateWorktree", "RemoveWorktree", "Merge",
                        "UpdateAgentStatus"}
        /\ ret'.err = "nil") => Holds(disk', state')]_vars

\* C20 witness: a status update has returned success with the state file
\* holding both tracked agents, one of them completed.
UpdatePersisted ==
    /\ ret.op = "UpdateAgentStatus"
    /\ ret.err = "nil"
    /\ DOMAIN state.agents = GenIds
    /\ \E id \in GenIds : OnDisk(disk, id, "completed")
    /\ Holds(disk, state)

\* C21: a successful merge appends to the merge history one record that
\* carries the agent ID and a non-empty merge commit, and no step changes
\* or removes a record the history already holds.
MergeIsRecorded ==
    [][/\ Len(state'.mergeHistory) >= Len(state.mergeHistory)
       /\ SubSeq(state'.mergeHistory, 1, Len(state.mergeHistory))
             = state.mergeHistory
       /\ (WtReturns("Merge") /\ ret'.err = "nil") =>
             /\ Len(state'.mergeHistory) = Len(state.mergeHistory) + 1
             /\ LET r == state'.mergeHistory[Len(state'.mergeHistory)] IN
                /\ r.agentId = ret'.id
                /\ r.mergeCommit # <<>>
      ]_vars

\* C22: removeBranch(id) returns not-found exactly when id was untracked
\* at the call, and then changes nothing and runs no command; whenever it
\* returns, id is untracked, so that a second call on the same id returns
\* not-found.
RemoveIsIdempotent ==
    [][WtReturns("RemoveWorktree") =>
          LET id == ret'.id IN
          /\ (ret'.err = "not found") <=> ~Tracked(Pre.state, id)
          /\ (ret'.err = "not found") =>
                /\ state' = state
                /\ disk' = disk
                /\ repo' = repo
                /\ ret'.cmds = <<>>
          /\ ~Tracked(state', id)
      ]_vars

\* C22 witness: removeBranch has returned not-found for an id that was
\* created and removed before, its branch having survived the removal.
RemovedTwice ==
    /\ ret.op = "RemoveWorktree"
    /\ ret.err = "not found"
    /\ ~Tracked(state, ret.id)
    /\ \E b \in repo.branches : Len(b) = 3 /\ b[2] = ret.id
    /\ now > 0

\* C23: removeBranch(id) on a tracked id runs git worktree remove on the
\* agent's working copy, with --force only after that failed, then git
\* branch -d on its branch, with -D only after that failed, and nothing
\* else; whatever those commands did, the agent is then removed from the
\* state, the state is saved, and the only error returned is the save's.
RemoveIsBestEffort ==
    [][(WtReturns("RemoveWorktree") /\ Tracked(Pre.state, ret'.id)) =>
          LET id == ret'.id
              a  == Pre.state.agents[id]
              g  == ret'.cmds
              w  == IF g[1].ok THEN 1 ELSE 2
              b  == IF g[w + 1].ok THEN 1 ELSE 2
          IN
          /\ Len(g) = w + b
          /\ g[1].cmd = "worktree remove" /\ g[1].arg = a.worktree
          /\ ~g[1].ok =>
                g[2].cmd = "worktree remove --force" /\ g[2].arg = a.worktree
          /\ g[w + 1].cmd = "branch -d" /\ g[w + 1].arg = a.branch
          /\ ~g[w + 1].ok =>
                g[w + 2].cmd = "branch -D" /\ g[w + 2].arg = a.branch
          /\ DOMAIN state'.agents = DOMAIN Pre.state.agents \ {id}
          /\ \A k \in DOMAIN state'.agents :
                state'.agents[k] = Pre.state.agents[k]
          /\ ret'.err \in {"nil", "save"}
          /\ ret'.err = "nil" => Holds(disk', state')
      ]_vars

\* C23 witness: removeBranch has returned success with the record gone
\* though all four commands failed, the working copy and the branch being
\* still there.
RemovedDespiteFailures ==
    /\ ret.op = "RemoveWorktree"
    /\ ret.err = "nil"
    /\ Len(ret.cmds) = 4
    /\ \A i \in 1..4 : ~ret.cmds[i].ok
    /\ ~Tracked(state, ret.id)
    /\ \E b \in repo.branches : Len(b) = 3 /\ b[2] = ret.id
    /\ Holds(disk, state)

\* C30: diff, commitLog and hasConflicts leave the state in memory, the
\* state file and the repository as they were, whatever git does, and
\* return not-found exactly when the id is untracked.
QueriesAreReadOnly ==
    [][(ret'.seq # ret.seq
        /\ ret'.op \in {"GetDiff", "GetCommits", "HasConflicts"}) =>
          /\ state' = state
          /\ disk' = disk
          /\ repo' = repo
          /\ (ret'.err = "not found") <=> ~Tracked(state, ret'.id)
          /\ (ret'.err = "not found") => ret'.cmds = <<>>
      ]_vars

\* C30 witness: hasConflicts has reported a conflict for a tracked agent
\* whose record is in the state file, the other id being untracked.
QueriedTracked ==
    /\ ret.op = "HasConflicts"
    /\ ret.val = "true"
    /\ ret.err = "nil"
    /\ Tracked(state, ret.id)
    /\ DOMAIN state.agents # GenIds
    /\ Holds(disk, state)

\* C25: when the save of a Manager operation fails and the state file
\* held a saved state before, the file still holds exactly that state.
FailedSaveKeepsFile ==
    [][(/\ ret'.seq # ret.seq
        /\ ret'.err \in {"save", "save state"}
        /\ disk.kind = "json") => disk' = disk
      ]_vars

\* C26: LoadState returns NewState when there is no state file, and an
\* error and no State when the file does not parse; a State it returns
\* has an Agents map, and NewManager holds no other State than the
\* one loaded.
LoadContract ==
    [][(/\ ret'.seq # ret.seq
        /\ ret'.op = "NewManager"
        /\ ret'.err # "not a git repository") =>
          /\ disk.kind = "absent" => ret'.err = "nil" /\ state' = NewState
          /\ disk.kind = "garbage" =>
                /\ ret'.err = "failed to load state"
                /\ "state" \notin DOMAIN LoadState(disk)
                /\ state' = state
          /\ ret'.err = "nil" =>
                /\ "agents" \in DOMAIN state'
                /\ DOMAIN state' = DOMAIN NewState
          /\ disk' = disk
      ]_vars

\* C26 witness: a state file with no agents key has been loaded into a
\* State with an empty Agents map.
LoadedWithoutAgents ==
    /\ ret.op = "NewManager"
    /\ ret.err = "nil"
    /\ disk.kind = "json"
    /\ "agents" \notin DOMAIN disk.data
    /\ state.agents = <<>>

\* C27: after a successful Save, LoadState on the same repository returns
\* the State that was saved: the same agents, each with its time of
\* merging absent or present as it was, and the same merge records.
RoundTrip ==
    [][(ret'.seq # ret.seq /\ ret'.op = "Save" /\ ret'.err = "nil") =>
          LET r == LoadState(disk') IN
          /\ r.err = "nil"
          /\ r.state = state
          /\ \A id \in DOMAIN state.agents :
                /\ id \in DOMAIN r.state.agents
                /\ r.state.agents[id].mergedAt = state.agents[id].mergedAt
          /\ r.state.mergeHistory = state.mergeHistory
      ]_vars

\* C27 witness: a State with an agent never merged, an agent merged and a
\* merge record has been saved.
SavedMixedState ==
    /\ ret.op = "Save"
    /\ ret.err = "nil"
    /\ \E a, b \in DOMAIN state.agents :
          /\ state.agents[a].mergedAt = NoTime
          /\ state.agents[b].mergedAt # NoTime
    /\ Len(state.mergeHistory) = 1
    /\ disk.kind = "json"

\* The slug of the branch CreateWorktree has derived in goroutine c.
SlugOf(c) == call[c].branch[3]

\* C28: for every task, the slug CreateWorktree puts in the branch name
\* is made of lowercase ASCII letters, digits and "-" only, has no two
\* "-" in a row and is at most 30 characters long.
SlugIsClean ==
    \A c \in DOMAIN call :
       call[c].op = "CreateWorktree" =>
          LET s == SlugOf(c) IN
          /\ Len(s) <= SlugMax
          /\ \A i \in 1..Len(s) : s[i] \in {"a", "b", "k", "1", "2", "-"}
          /\ \A i \in 1..(Len(s) - 1) : ~(s[i] = "-" /\ s[i + 1] = "-")

\* C28 witness: CreateWorktree has cut the slug of a task longer than 30
\* characters, with a space in it, down to 30.
SlugWasCut ==
    \E c \in DOMAIN call :
       /\ call[c].op = "CreateWorktree"
       /\ Len(call[c].task) > SlugMax
       /\ \E i \in 1..Len(call[c].task) : call[c].task[i] = " "
       /\ Len(SlugOf(c)) = SlugMax
       /\ \E i \in 1..SlugMax : SlugOf(c)[i] = "-"

\* C29: for every task, the branch name CreateWorktree derives is a valid
\* ref name, with no empty path component, and its slug neither begins
\* nor ends with "-".
BranchIsValidRef ==
    \A c \in DOMAIN call :
       call[c].op = "CreateWorktree" =>
          LET s == SlugOf(c) IN
          /\ ValidRef(call[c].branch)
          /\ s[1] # "-"
          /\ s[Len(s)] # "-"

\* C24: the Manager serialises createBranch, removeBranch and merge: at no
\* time are two of its goroutines inside one of them, between the read of
\* the state and its save.
CallsAreSerialized ==
    \A c1, c2 \in DOMAIN call :
       (call[c1].pc # "idle" /\ call[c2].pc # "idle") => c1 = c2

\* C37: Count returns the number of registered sessions that are still
\* running; one whose child has exited and whose read loop has ended is
\* not counted.
CountsOnlyRunning ==
    [][(last'.op = "Count" /\ UNCHANGED <<heap, sessions, mu, th, quitting>>)
          => last'.n = Cardinality({id \in DOMAIN sessions :
                                       IsRunning(heap[sessions[id]])})
      ]_vars

\* C38: for a RingBuffer of capacity N >= 1 and any Writes, Bytes returns
\* the last min(total, N) bytes written, in order, and 0 <= len <= N and
\* 0 <= start < N.
RingKeepsTrailing ==
    LET r == heap[1].buffer
        total == heap[1].nOut
    IN  /\ RingBytes(r) = Trailing(Iota(total), Min(total, r.size))
        /\ r.len \in 0..r.size
        /\ r.start \in 0..(r.size - 1)

\* C38 witness: a buffer of capacity 3 has wrapped more than twice, the
\* last Write having given it more bytes than it holds.
RingWrappedTwice ==
    /\ last.op = "RingBuffer.Write"
    /\ Len(last.arg) = 4
    /\ heap[1].buffer.size = 3
    /\ heap[1].nOut = 8
    /\ heap[1].buffer.start # 0

\* C39: for every tracked agent, in memory and in the state file, the
\* time of merging is present exactly when the status is merged.
MergedIffStamped ==
    /\ \A id \in DOMAIN state.agents :
          (state.agents[id].mergedAt # NoTime)
             <=> (state.agents[id].status = "merged")
    /\ disk.kind = "json" =>
          \A id \in DOMAIN disk.data.agents :
             ("mergedAt" \in DOMAIN disk.data.agents[id])
                <=> (disk.data.agents[id].status = "merged")

---------------------------------------------------------------------------
\* The terminal UI: tui.Model and its bubbletea handlers, on the pty
\* Manager and the worktree Manager above.  All handlers run in the one
\* goroutine of the bubbletea event loop; a handler is a chain of steps led
\* by model.pc, each call of a Manager method running through the steps of
\* that method.  Between two events model.pc is "idle".

\* The goroutine of the event loop, as caller of the pty Manager.
UiThread == "g1"

\* The same goroutine, as caller of the worktree Manager.
UiCaller == "ui"

\* termHeight: the rows left under the tab bar and over the status bar.
TermHeight(height) == IF height - 2 < 1 THEN 1 ELSE height - 2

\* The task the user types.
UiTask == <<"A">>

\* A Tab; agent is the id of the *worktree.Agent it points to, or "none"
\* for nil.
Tab(id, isMain, agent) ==
    [id |-> id, sessionID |-> id, isMain |-> isMain, agent |-> agent]

\* m.tabs[m.activeTab]
CurrentTab == model.tabs[model.activeTab + 1]

\* append(tabs[:i], tabs[i+1:]...)
DropTab(tabs, i) == SubSeq(tabs, 1, i) \o SubSeq(tabs, i + 2, Len(tabs))

\* closeCurrentTab removes the tab and leaves the index where it was.
CloseTabKeepsIndex(m) == [m EXCEPT !.tabs = DropTab(@, m.activeTab)]

\* closeCurrentTab's last lines: the tab is removed and the index pulled
\* back onto the last tab.
CloseTab(m) ==
    LET tabs == DropTab(m.tabs, m.activeTab)
    IN  [m EXCEPT !.tabs = tabs,
                  !.activeTab = IF m.activeTab >= Len(tabs)
                                THEN Len(tabs) - 1 ELSE @]

\* createNewAgent's last lines: m is the pointer receiver bound when
\* m.createNewAgent was assigned to inputAction, a copy of the Model made
\* for that call of handleKeyMsg; the tab is appended to its tabs and its
\* activeTab set.
AppendTab(m, id) ==
    [m EXCEPT !.inputAction.tabs = Append(@, Tab(id, FALSE, id)),
              !.inputAction.activeTab = Len(m.inputAction.tabs)]

\* handleInputMode leaves input mode after Enter or Esc.
LeaveInput(m) == [m EXCEPT !.inputMode = FALSE, !.inputBuffer = <<>>]

\* A step of the handler itself: the Model becomes m.  What the Manager
\* call before it returned was a local of the handler, and is dropped.
UiStep(m) ==
    /\ model' = m
    /\ last' = NoCall
    /\ ret' = NoReturn
    /\ UNCHANGED <<heap, sessions, mu, th, quitting, lockVars,
                   state, disk, repo, call, now>>

\* The pty Manager call the handler is at has not been made yet.
PtyToCall == last.op = "none" /\ th[UiThread].pc = "idle"

\* It has returned.
PtyReturned == last.op # "none" /\ th[UiThread].pc = "idle"

\* The same for the worktree Manager.
WtToCall == ret.op = "none" /\ call[UiCaller].pc = "idle"

WtReturned == ret.op # "none" /\ call[UiCaller].pc = "idle"

\* ---- NewModel
UiNewManager ==
    /\ model.pc = "new" /\ WtToCall
    /\ NewManager(UiCaller)

UiNewManagerDone ==
    /\ model.pc = "new" /\ WtReturned
    /\ IF ret.err # "nil"
       THEN UiStep([model EXCEPT !.pc = "failed"])
       ELSE UiStep([model EXCEPT !.pc = "main"])

UiSpawnMain ==
    /\ model.pc = "main" /\ PtyToCall
    /\ SpawnCall(UiThread, "main")

\* The main tab is appended; ListAgents hands the agents over in the
\* order of a map range, which is any order.
UiMainSpawned ==
    /\ model.pc = "main" /\ PtyReturned
    /\ IF last.res # "ok"
       THEN UiStep([model EXCEPT !.pc = "failed"])
       ELSE UiStep([model EXCEPT !.pc = "restore",
                                 !.tabs = <<Tab("main", TRUE, "none")>>,
                                 !.todo = DOMAIN state.agents])

\* NewModel restores every agent, whatever its status.
RestorableAny(agent) == TRUE

\* NewModel restores the agents whose status is running.
Restorable(agent) == agent.status = "running"

\* The restore loop takes the next agent, or ends and NewModel returns.
UiRestoreNext ==
    /\ model.pc = "restore"
    /\ IF model.todo = {}
       THEN UiStep([model EXCEPT !.pc = "idle"])
       ELSE \E id \in model.todo :
               IF Restorable(state.agents[id])
               THEN UiStep([model EXCEPT !.pc = "respawn", !.id = id,
                                         !.todo = @ \ {id}])
               ELSE UiStep([model EXCEPT !.todo = @ \ {id}])

UiRespawn ==
    /\ model.pc = "respawn" /\ PtyToCall
    /\ SpawnCall(UiThread, model.id)

UiRespawned ==
    /\ model.pc = "respawn" /\ PtyReturned
    /\ IF last.res # "ok"
       THEN UiStep([model EXCEPT !.pc = "restore"])
       ELSE UiStep([model EXCEPT !.pc = "restore",
                                 !.tabs = Append(@, Tab(model.id, FALSE,
                                                        model.id))])

\* ---- handleKeyMsg, outside input mode
KeyEvent ==
    /\ model.pc = "idle"
    /\ ~quitting
    /\ th[UiThread].pc = "idle"
    /\ call[UiCaller].pc = "idle"

KeyLeft ==
    /\ KeyEvent /\ ~model.inputMode
    /\ UiStep([model EXCEPT !.activeTab = IF @ > 0 THEN @ - 1 ELSE @])

KeyRight ==
    /\ KeyEvent /\ ~model.inputMode
    /\ UiStep([model EXCEPT !.activeTab =
                  IF @ < Len(model.tabs) - 1 THEN @ + 1 ELSE @])

\* Alt+N: m.inputAction = m.createNewAgent binds the handler's own copy of
\* the Model, as it is at that line.
KeyNew ==
    /\ KeyEvent /\ ~model.inputMode
    /\ UiStep([model EXCEPT !.inputMode = TRUE, !.inputBuffer = <<>>,
                            !.inputAction = [set |-> TRUE,
                                             tabs |-> model.tabs,
                                             activeTab |-> model.activeTab]])

\* Alt+W
KeyClose ==
    /\ KeyEvent /\ ~model.inputMode
    /\ model.activeTab > 0
    /\ UiStep([model EXCEPT !.pc = "kill", !.by = "alt+w"])

\* Alt+M
KeyMerge ==
    /\ KeyEvent /\ ~model.inputMode
    /\ now < MaxUiNow
    /\ model.activeTab > 0
    /\ CurrentTab.agent # "none"
    /\ UiStep([model EXCEPT !.pc = "merge"])

\* Alt+Q, Ctrl+C: quitting is set and StopAll called.
KeyQuit ==
    /\ KeyEvent /\ ~model.inputMode
    /\ QuitKey(UiThread)

\* ---- handleInputMode
\* The user types the task.
KeyRunes ==
    /\ KeyEvent /\ model.inputMode
    /\ Len(model.inputBuffer) < Len(UiTask)
    /\ UiStep([model EXCEPT !.inputBuffer = @ \o UiTask])

KeyBackspace ==
    /\ KeyEvent /\ model.inputMode
    /\ UiStep([model EXCEPT !.inputBuffer =
                  IF Len(@) > 0 THEN SubSeq(@, 1, Len(@) - 1) ELSE @])

KeyEscape ==
    /\ KeyEvent /\ model.inputMode
    /\ UiStep(LeaveInput(model))

KeyEnter ==
    /\ KeyEvent /\ model.inputMode
    /\ IF model.inputAction.set /\ model.inputBuffer # <<>>
       THEN /\ now < MaxUiNow
            /\ Len(heap) < MaxUiSessions
            /\ UiStep([model EXCEPT !.pc = "create"])
       ELSE UiStep(LeaveInput(model))

\* ---- createNewAgent
\* Spawn's error is answered by returning at once.
SpawnFailedReturns(m) == [LeaveInput(m) EXCEPT !.pc = "idle"]

\* Spawn's error is answered by RemoveWorktree on the agent.
SpawnFailed(m) == [m EXCEPT !.pc = "cleanup"]

UiCreate ==
    /\ model.pc = "create" /\ WtToCall
    /\ CreateWorktree(UiCaller, model.inputBuffer)

UiCreated ==
    /\ model.pc = "create" /\ WtReturned
    /\ IF ret.err # "nil"
       THEN UiStep([LeaveInput(model) EXCEPT !.pc = "idle"])
       ELSE UiStep([model EXCEPT !.pc = "spawn", !.id = ret.id])

UiSpawn ==
    /\ model.pc = "spawn" /\ PtyToCall
    /\ SpawnCall(UiThread, model.id)

\* Spawn has returned.  On an error the worktree is to be removed; else
\* the session is looked up and resized, and the tab appended.
UiSpawned ==
    /\ model.pc = "spawn" /\ PtyReturned
    /\ IF last.res # "ok"
       THEN UiStep(SpawnFailed(model))
       ELSE /\ model' = [LeaveInput(AppendTab(model, model.id))
                            EXCEPT !.pc = "idle"]
            /\ heap' = IF model.id \in DOMAIN sessions
                       THEN [heap EXCEPT ![sessions[model.id]] =
                               SessionResize(@, TermHeight(UiHeight),
                                             UiWidth).s]
                       ELSE heap
            /\ last' = NoCall
            /\ ret' = NoReturn
            /\ UNCHANGED <<sessions, mu, th, quitting, lockVars,
                           state, disk, repo, call, now>>

UiCleanup ==
    /\ model.pc = "cleanup" /\ WtToCall
    /\ RemoveWorktree(UiCaller, model.id)

UiCleaned ==
    /\ model.pc = "cleanup" /\ WtReturned
    /\ UiStep([LeaveInput(model) EXCEPT !.pc = "idle"])

\* ---- closeCurrentTab
UiKill ==
    /\ model.pc = "kill" /\ PtyToCall
    /\ KillLock(UiThread, CurrentTab.sessionID)

UiKilled ==
    /\ model.pc = "kill" /\ PtyReturned
    /\ IF CurrentTab.agent # "none"
       THEN UiStep([model EXCEPT !.pc = "remove"])
       ELSE UiStep([CloseTab(model) EXCEPT !.pc = "idle", !.by = "none"])

UiRemove ==
    /\ model.pc = "remove" /\ WtToCall
    /\ RemoveWorktree(UiCaller, CurrentTab.agent)

UiRemoved ==
    /\ model.pc = "remove" /\ WtReturned
    /\ UiStep([CloseTab(model) EXCEPT !.pc = "idle", !.by = "none"])

\* ---- mergeCurrentTab
UiMerge ==
    /\ model.pc = "merge" /\ WtToCall
    /\ Merge(UiCaller, CurrentTab.agent)

UiMerged ==
    /\ model.pc = "merge" /\ WtReturned
    /\ IF ret.err # "nil"
       THEN UiStep([model EXCEPT !.pc = "idle"])
       ELSE UiStep([model EXCEPT !.pc = "kill", !.by = "alt+m"])

\* ---- cwt is started
\* The agents the state file may hold when cwt is started: any of the
\* ids, each running or left in merging.
TuiAgentMaps ==
    UNION {{[id \in S |-> StoreAgent(id, f[id], NoTime)] :
               f \in [S -> {"running", "merging"}]} :
           S \in SUBSET GenIds}

\* The repository those agents were created in: the branch and the
\* worktree of each exist.
RepoOf(a) ==
    [FreshRepo EXCEPT
        !.branches = @ \cup {a[id].branch : id \in DOMAIN a},
        !.worktrees = [p \in {a[id].worktree : id \in DOMAIN a} |->
                          a[CHOOSE id \in DOMAIN a : a[id].worktree = p].branch]]

TuiInit ==
    /\ LockAtRest
    /\ state = NewState
    /\ \E a \in TuiAgentMaps :
          /\ \/ disk = [kind |-> "json",
                        data |-> Marshal([NewState EXCEPT !.agents = a])]
             \/ a = <<>> /\ disk = NoFile
          /\ repo = RepoOf(a)
    /\ call = [c \in WtCallers |-> NoMethod]
    /\ ret = NoReturn
    /\ now = 0
    /\ heap = <<>>
    /\ sessions = <<>>
    /\ mu = NoLock
    /\ th = [t \in Threads |-> Idle]
    /\ quitting = FALSE
    /\ last = NoCall
    /\ model = [NoModel EXCEPT !.pc = "new"]

\* The ids of the UI's sessions.
UiIds == {"main"} \cup GenIds

\* The read loop of a registered session ends on its read error.
SessionLoopEnds(id) ==
    /\ id \in DOMAIN sessions
    /\ LoopReadErr(sessions[id])

\* The child of a registered session exits by itself.
SessionExits(id) ==
    /\ id \in DOMAIN sessions
    /\ Cardinality({i \in DOMAIN heap : heap[i].proc = "exited"}) < MaxExits
    /\ ChildExit(sessions[id])

\* The steps of cwt with its UI: the handlers, the Manager methods they
\* call, and the sessions' children and read loops.  Window size messages
\* and the keys forwarded to the active session touch neither tabs nor
\* registry nor tracked agents, and are left out.
TuiNext ==
    \/ UiNewManager \/ UiNewManagerDone \/ UiSpawnMain \/ UiMainSpawned
    \/ UiRestoreNext \/ UiRespawn \/ UiRespawned
    \/ KeyLeft \/ KeyRight \/ KeyNew \/ KeyClose \/ KeyMerge \/ KeyQuit
    \/ KeyRunes \/ KeyBackspace \/ KeyEscape \/ KeyEnter
    \/ UiCreate \/ UiCreated \/ UiSpawn \/ UiSpawned \/ UiCleanup \/ UiCleaned
    \/ UiKill \/ UiKilled \/ UiRemove \/ UiRemoved \/ UiMerge \/ UiMerged
    \/ CreateGetBranch(UiCaller) \/ CreateGetCommit(UiCaller)
    \/ CreateAdd(UiCaller) \/ CreateSave(UiCaller)
    \/ RemoveGitWorktree(UiCaller) \/ RemoveGitBranch(UiCaller)
    \/ RemoveSave(UiCaller)
    \/ MergeCheckout(UiCaller) \/ MergeGit(UiCaller) \/ MergeFinish(UiCaller)
    \/ SpawnCheck(UiThread) \/ SpawnStart(UiThread) \/ SpawnInsert(UiThread)
    \/ KillLookup(UiThread) \/ KillStop(UiThread) \/ KillDelete(UiThread)
    \/ StopAllStep(UiThread) \/ StopAllEnd(UiThread)
    \/ \E id \in UiIds : SessionLoopEnds(id) \/ SessionExits(id)

TuiSpec == TuiInit /\ [][TuiNext]_vars

---------------------------------------------------------------------------
\* Properties of the UI (TuiSpec).

\* The UI is between two events and has not been quit.
BetweenEvents == model.pc = "idle" /\ ~quitting

\* The tabs with session id id.
TabsOf(id) == {i \in DOMAIN model.tabs : model.tabs[i].sessionID = id}

\* C31: between UI events before quit, every tab's session id is
\* registered with a running session, and every registered session
\* belongs to exactly one tab.
TabsMatchSessions ==
    BetweenEvents =>
       /\ \A i \in DOMAIN model.tabs :
             /\ model.tabs[i].sessionID \in DOMAIN sessions
             /\ IsRunning(heap[sessions[model.tabs[i].sessionID]])
       /\ \A id \in DOMAIN sessions : Cardinality(TabsOf(id)) = 1

\* C32: when createNewAgent has created the agent and spawned its session,
\* the Model returned to bubbletea has a new tab for the agent, with the
\* agent's session id, appended after the tabs it had, and that tab is
\* the active one.
NewAgentGetsTab ==
    [][(model.pc = "spawn" /\ model'.pc = "idle")
          => /\ model'.tabs = Append(model.tabs, Tab(model.id, FALSE, model.id))
             /\ model'.activeTab = Len(model'.tabs) - 1
      ]_vars

\* C33: when Spawn fails for the agent just created, RemoveWorktree is
\* called on it: git worktree remove is run on its worktree and its record
\* is gone from the tracked agents when it returns; no tab is added and no
\* session is registered for the agent.
SpawnFailureCleansUp ==
    [][/\ (model.pc = "spawn" /\ model'.pc # "spawn" /\ last.res # "ok")
             => /\ model'.pc = "cleanup"
                /\ model.id \notin DOMAIN sessions
       /\ (model.pc = "cleanup" /\ model'.pc # "cleanup")
             => /\ ret.op = "RemoveWorktree" /\ ret.id = model.id
                /\ \E k \in DOMAIN ret.cmds :
                      /\ ret.cmds[k].cmd = "worktree remove"
                      /\ ret.cmds[k].arg = WorktreePathOf(state, model.id)
                /\ ~Tracked(state', model.id)
                /\ model.id \notin DOMAIN sessions'
                /\ model'.pc = "idle"
                /\ model'.tabs = model.tabs
                /\ TabsOf(model.id) = {}
                /\ \A i \in DOMAIN model'.inputAction.tabs :
                      model'.inputAction.tabs[i].sessionID # model.id
      ]_vars

\* C33 witness: Spawn has failed for the agent created and RemoveWorktree
\* has returned from removing it, with git unable to remove the worktree.
CleanedUpAfterSpawnFailure ==
    /\ model.pc = "cleanup"
    /\ WtReturned
    /\ ret.op = "RemoveWorktree"
    /\ \A k \in DOMAIN ret.cmds : ~ret.cmds[k].ok

\* The agent of the current tab.
CurrentAgent == CurrentTab.agent

\* C34: merging the current tab closes it only on success.  When Merge
\* returns an error the tab, its registered session and the tracked agent,
\* in status merging, remain; when it returns nil the tab's session is
\* killed, the agent's worktree, branch and record are removed and the tab
\* is gone.
MergeClosesOnSuccessOnly ==
    [][/\ (model.pc = "merge" /\ model'.pc = "idle")
             => /\ model'.tabs = model.tabs
                /\ CurrentTab.sessionID \in DOMAIN sessions'
                /\ Tracked(state', CurrentAgent)
                /\ state'.agents[CurrentAgent].status = "merging"
       /\ (model.pc = "remove" /\ model.by = "alt+m" /\ model'.pc = "idle")
             => /\ CurrentTab.sessionID \notin DOMAIN sessions'
                /\ WorktreePathOf(state, CurrentAgent)
                      \notin DOMAIN repo'.worktrees
                /\ \A b \in repo'.branches :
                      Len(b) > 1 => b[2] # CurrentAgent
                /\ ~Tracked(state', CurrentAgent)
                /\ model'.tabs = DropTab(model.tabs, model.activeTab)
      ]_vars

\* NewModel has appended the main tab.
HasMainTab == model.pc \notin {"none", "new", "main", "failed"}

\* C35: the main tab is always tab 0 and is never closed or merged, and
\* whatever keys were handled the active tab index is within
\* 0 .. len(tabs) - 1, with at least one tab.
MainTabStays ==
    HasMainTab =>
       /\ Len(model.tabs) >= 1
       /\ model.tabs[1] = Tab("main", TRUE, "none")
       /\ \A i \in 2..Len(model.tabs) : ~model.tabs[i].isMain
       /\ model.activeTab \in 0..(Len(model.tabs) - 1)
       /\ model.pc \in {"kill", "remove", "merge"} => model.activeTab > 0
       /\ th[UiThread].op = "Kill" => th[UiThread].id # "main"
       /\ call[UiCaller].op \in {"Merge", "RemoveWorktree"}
             => call[UiCaller].id # "main"
       /\ ~quitting => "main" \in DOMAIN sessions

\* C35 witness: of three tabs the last was active and was closed, and the
\* index was pulled back onto the tab before it.
ClosedLastTab ==
    /\ BetweenEvents
    /\ Len(heap) = 3
    /\ Len(model.tabs) = 2
    /\ model.activeTab = 1
    /\ heap[3].id \notin DOMAIN sessions
    /\ heap[2].id \in DOMAIN sessions

\* C36: NewModel makes a session and a tab for exactly the agents loaded
\* from the state file that are running and whose Spawn succeeds: an agent
\* whose Spawn fails gets neither and stays tracked as running, an agent
\* in another status gets neither, and when NewModel returns the tabs
\* after the main tab are those of the registered agent sessions.
RestoresRunningAgents ==
    [][/\ (model.pc = "respawn" /\ model'.pc = "restore")
             => /\ Tracked(state, model.id)
                /\ state.agents[model.id].status = "running"
                /\ IF last.res = "ok"
                   THEN /\ model.id \in DOMAIN sessions
                        /\ model'.tabs =
                              Append(model.tabs,
                                     Tab(model.id, FALSE, model.id))
                   ELSE /\ model.id \notin DOMAIN sessions
                        /\ model'.tabs = model.tabs
       /\ (model.pc = "restore" /\ model'.pc = "idle")
             => /\ state = [LoadState(disk).state
                               EXCEPT !.repoRoot = NewState.repoRoot]
                /\ DOMAIN sessions \subseteq {"main"} \cup DOMAIN state.agents
                /\ \A id \in DOMAIN state.agents :
                      /\ state.agents[id].status # "running"
                            => id \notin DOMAIN sessions
                      /\ Cardinality(TabsOf(id)) =
                            IF id \in DOMAIN sessions THEN 1 ELSE 0
                /\ Len(model'.tabs) = Cardinality(DOMAIN sessions)
                /\ model'.tabs = model.tabs
      ]_vars

\* C36 witness: NewModel is about to return; of two running agents one
\* was restored and the other, whose Spawn failed, was skipped.
RestoredOneOfTwo ==
    /\ model.pc = "restore"
    /\ model.todo = {}
    /\ DOMAIN state.agents = GenIds
    /\ \A id \in GenIds : state.agents[id].status = "running"
    /\ Len(model.tabs) = 2
    /\ Cardinality(DOMAIN sessions) = 2

====
